---- MODULE Spec2Model ----
(***************************************************************************)
(* Model of the fitting host hook (useFittingWorker), of the fitting       *)
(* worker (fitting.worker) and of the message protocol between them.       *)
(*                                                                         *)
(* Four specifications share the definitions:                             *)
(*   Spec       the hook and the worker it owns, closed system;            *)
(*   FairSpec   Spec with the fairness the event loops guarantee;          *)
(*   HostSpec   the hook alone, its onmessage/onerror handlers fed any     *)
(*              message of the protocol's types;                           *)
(*   WorkerSpec the worker alone, fed any request message; nothing reads   *)
(*              its outbox, which is then the log of all it posted.        *)
(*                                                                         *)
(* Payload that no handler branches on (energy, spectra, temperature, the  *)
(* fitness number of a progress message, the fitted parameters of a        *)
(* result) is not represented.  The hook is modelled over its mounted      *)
(* lifetime: from after the worker-creating effect to before its cleanup.  *)
(***************************************************************************)
EXTENDS Integers, Sequences, FiniteSets, TLC

(* ------------------------------ bounds -------------------------------- *)

\* Requests that may be started (ids 1..MaxId come from generateId).
MaxId == 2

\* Requests posted to the worker of WorkerSpec, under the ids 1..MaxPosts.
MaxPosts == 1

\* Worker objects ever created: the effect's one plus one per cancel().
MaxWorkers == 2

\* maxIterations a caller passes to estimateIRF ranges over 0..MaxIterInput,
\* besides the parameter's default.
MaxIterInput == 1

\* Messages posted and not yet dispatched, when a host reads them: a worker
\* of Spec posts only while fewer wait.
MaxOutbox == 2

\* Fitness grid points per tolerance: a sweep's improvement of the best
\* fitness is a whole number of units of tolerance / FitnessResolution.
FitnessResolution == 2

(* -------------------------- program constants ------------------------- *)

\* useRef<string | null>(null): no current id.  Ids are 1, 2, ...
NoId == 0

\* maxIterations?: number left out of an EstimateIRFMessage.
Undefined == -1

\* handleFitFermiEdge: const maxIterations = 100 (the progress denominator).
FermiNominalIterations == 100

\* fitFermiEdge: deOptions.maxIterations: 100 (the DE loop bound).
FermiDEIterations == 100

\* handleEstimateIRF / estimateIRF: maxIterations = 50 by default.
DefaultMaxIterations == 50

\* Progress is a percentage: Math.min(100, ...).
FullProgress == 100

Ids == 1..MaxId

\* DE's tolerance (1e-8) in fitness units.
Tolerance == FitnessResolution

\* What one DE sweep can take off the best fitness, in fitness units: nothing,
\* less than the tolerance, the tolerance or more.
Improvements == 0..(2 * Tolerance)

Min(a, b) == IF a < b THEN a ELSE b

(* ------------------------------- state -------------------------------- *)

VARIABLES
  \* the hook (useFittingWorker)
  workerRef,           \* workerRef.current: the Worker object, by generation
  onmessageWorkers,    \* the Worker objects that have onmessage/onerror set
  isRunning,           \* useState: the running flag as last set
  closureIsRunning,    \* isRunning as captured by the callbacks of the last render
  progress,            \* useState: <<>> (null) or <<[iteration, progress]>>
  error,               \* useState: NoError or the error text
  currentResolverRef,  \* NoId (null) or the request whose promise it settles
  currentIdRef,        \* NoId (null) or the current request id
  messageIdCounter,    \* generateId: the n of the next id msg_<time>_<n>, from 1
  promise,             \* the promise returned for each started request
  lastCall,            \* the last hook call and how it ended at once
  lastDispatch,        \* the last message onmessage was called with
  \* the channel
  inbox,               \* requests posted to the current worker, not yet handled
  outbox,              \* messages posted by workers, not yet dispatched
  sent,                \* WorkerSpec: every request its environment posted, by id
  \* the worker (fitting.worker)
  pc,                  \* "idle", "de" (inside differentialEvolution), "lm"
  req,                 \* the request being handled
  iteration,           \* differentialEvolution: iteration
  converged,           \* differentialEvolution: converged
  \* the numerical library, one call at a time
  calc                 \* the function called, its arguments, locals and result

hostVars == <<workerRef, onmessageWorkers, isRunning, closureIsRunning, progress,
              error, currentResolverRef, currentIdRef, messageIdCounter, promise,
              lastCall, lastDispatch>>
workerVars == <<pc, req, iteration, converged>>
vars == <<workerRef, onmessageWorkers, isRunning, closureIsRunning, progress,
          error, currentResolverRef, currentIdRef, messageIdCounter, promise,
          lastCall, lastDispatch, inbox, outbox, sent, pc, req, iteration,
          converged>>

allVars == <<vars, calc>>

\* No library call is under study.
NoCalc == [fn |-> "none"]

(* ------------------------------ messages ------------------------------ *)

NoError == "<null>"

\* A progress percentage is the rational n / d.
Fraction(n, d) == [n |-> n, d |-> d]
NoFraction == Fraction(0, 1)

NoRequest ==
  [type |-> "none", id |-> NoId, useGlobalOpt |-> FALSE,
   maxIterations |-> Undefined, argsOk |-> TRUE]

NoResult == [success |-> FALSE, iterations |-> 0]

\* FitFermiEdgeMessage.  argsOk: the fit runs without throwing.
FitFermiEdgeMessage(id, useGlobalOpt, argsOk) ==
  [type |-> "fitFermiEdge", id |-> id, useGlobalOpt |-> useGlobalOpt,
   maxIterations |-> Undefined, argsOk |-> argsOk]

\* EstimateIRFMessage.  argsOk: estimateIRFParameters runs without throwing
\* (bounds has the eight parameter names).
EstimateIRFMessage(id, maxIterations, argsOk) ==
  [type |-> "estimateIRF", id |-> id, useGlobalOpt |-> FALSE,
   maxIterations |-> maxIterations, argsOk |-> argsOk]

\* A message of a type the worker's switch does not know.
UnknownMessage(id) ==
  [type |-> "unknown", id |-> id, useGlobalOpt |-> FALSE,
   maxIterations |-> Undefined, argsOk |-> TRUE]

ProgressMessage(from, id, iter, percent) ==
  [from |-> from, type |-> "progress", id |-> id, iteration |-> iter,
   progress |-> percent, result |-> NoResult, error |-> NoError]

ResultMessage(from, id, result) ==
  [from |-> from, type |-> "result", id |-> id, iteration |-> 0,
   progress |-> NoFraction, result |-> result, error |-> NoError]

ErrorMessage(from, id, text) ==
  [from |-> from, type |-> "error", id |-> id, iteration |-> 0,
   progress |-> NoFraction, result |-> NoResult, error |-> text]

IsTerminal(m) == m.type \in {"result", "error"}

(* ------------------------------ promises ------------------------------ *)

NoPromise == [state |-> "none", value |-> ""]
Pending == [state |-> "pending", value |-> ""]
Resolved == [state |-> "resolved", value |-> "result"]
Rejected(text) == [state |-> "rejected", value |-> text]

\* currentResolverRef.current.resolve / reject: a promise settles once.
Settle(p, r, outcome) ==
  IF r # NoId /\ p[r].state = "pending" THEN [p EXCEPT ![r] = outcome] ELSE p

\* What lastCall keeps of a call of the hook: how it ended at once (the
\* promise executor started the request or rejected; cancel() acted or not).
CallRecord(op, outcome) == outcome

(* ------------------------------ the hook ------------------------------ *)

\* useRef<Worker | null>(null): no Worker object.  Workers are 1, 2, ...
NoWorker == 0

\* Mutant: onmessage without the id filter.
PassesIdFilter_Always(m) == TRUE

\* onmessage: "Ignore messages for old requests".
PassesIdFilter(m) == m.id = currentIdRef

\* workerRef.current.onmessage, called with message m: what it does to the hook.
OnMessageBody(m) ==
  /\ lastDispatch' = [id |-> m.id, type |-> m.type, ignored |-> ~PassesIdFilter(m)]
  /\ IF ~PassesIdFilter(m)
     THEN UNCHANGED <<isRunning, progress, error, currentResolverRef, promise>>
     ELSE CASE m.type = "progress" ->
                 /\ progress' = <<[iteration |-> m.iteration, progress |-> m.progress]>>
                 /\ UNCHANGED <<isRunning, error, currentResolverRef, promise>>
            [] m.type = "result" ->
                 /\ isRunning' = FALSE
                 /\ progress' = <<>>
                 /\ promise' = Settle(promise, currentResolverRef, Resolved)
                 /\ currentResolverRef' = NoId
                 /\ UNCHANGED error
            [] m.type = "error" ->
                 /\ isRunning' = FALSE
                 /\ progress' = <<>>
                 /\ error' = m.error
                 /\ promise' = Settle(promise, currentResolverRef, Rejected(m.error))
                 /\ currentResolverRef' = NoId
            [] OTHER ->
                 UNCHANGED <<isRunning, progress, error, currentResolverRef, promise>>
  /\ UNCHANGED <<workerRef, onmessageWorkers, closureIsRunning, currentIdRef,
                 messageIdCounter, lastCall>>

OnMessage(m) == OnMessageBody(m) /\ UNCHANGED calc

\* workerRef.current.onerror, called with an event whose message is text:
\* what it does to the hook.
OnErrorBody(text) ==
  /\ isRunning' = FALSE
  /\ error' = text
  /\ promise' = Settle(promise, currentResolverRef, Rejected(text))
  /\ currentResolverRef' = NoId
  /\ UNCHANGED <<workerRef, onmessageWorkers, closureIsRunning, progress,
                 currentIdRef, messageIdCounter, lastCall, lastDispatch>>

OnError(text) == OnErrorBody(text) /\ UNCHANGED calc

\* The promise executor of fitFermiEdge and of estimateIRF, posting message
\* m: what it does to the hook and the channel.
StartRequestBody(op, m) ==
  /\ closureIsRunning \/ messageIdCounter <= MaxId
  /\ IF workerRef = NoWorker
     THEN /\ lastCall' = CallRecord(op, "Worker not initialized")
          /\ UNCHANGED <<isRunning, progress, error, currentResolverRef, currentIdRef,
                         messageIdCounter, promise, inbox>>
     ELSE IF closureIsRunning
     THEN /\ lastCall' = CallRecord(op, "Another operation is in progress")
          /\ UNCHANGED <<isRunning, progress, error, currentResolverRef, currentIdRef,
                         messageIdCounter, promise, inbox>>
     ELSE /\ messageIdCounter' = messageIdCounter + 1
          /\ currentIdRef' = m.id
          /\ currentResolverRef' = m.id
          /\ promise' = [promise EXCEPT ![m.id] = Pending]
          /\ isRunning' = TRUE
          /\ error' = NoError
          /\ progress' = <<>>
          /\ inbox' = Append(inbox, m)
          /\ lastCall' = CallRecord(op, "started")
  /\ UNCHANGED <<workerRef, onmessageWorkers, closureIsRunning, lastDispatch,
                 outbox, sent, pc, req, iteration, converged>>

StartRequest(op, m) == StartRequestBody(op, m) /\ UNCHANGED calc

\* fitFermiEdge(energy, observedSpectrum, temp, fitTemp, useGlobalOpt).
FitFermiEdgeCall(useGlobalOpt, argsOk) ==
  StartRequest("fitFermiEdge",
               FitFermiEdgeMessage(messageIdCounter, useGlobalOpt, argsOk))

\* estimateIRF(observedSpectrum, temp, bounds, maxIterations = 50).
EstimateIRFCall(maxIterations, argsOk) ==
  StartRequest("estimateIRF",
               EstimateIRFMessage(messageIdCounter, maxIterations, argsOk))

\* cancel(): what it does to the hook, the worker and the channel.
CancelBody ==
  /\ closureIsRunning => workerRef < MaxWorkers
  /\ IF workerRef # NoWorker /\ closureIsRunning
     THEN /\ workerRef' = workerRef + 1         \* terminate(), new Worker(...)
          /\ inbox' = <<>>
          /\ pc' = "idle"
          /\ req' = NoRequest
          /\ iteration' = 0
          /\ converged' = FALSE
          /\ isRunning' = FALSE
          /\ progress' = <<>>
          /\ currentIdRef' = NoId
          /\ promise' = Settle(promise, currentResolverRef, Rejected("Operation cancelled"))
          /\ currentResolverRef' = NoId
          /\ lastCall' = CallRecord("cancel", "terminated")
     ELSE /\ lastCall' = CallRecord("cancel", "ignored")
          /\ UNCHANGED <<workerRef, inbox, pc, req, iteration, converged, isRunning,
                         progress, currentIdRef, promise, currentResolverRef>>
  /\ UNCHANGED <<onmessageWorkers, closureIsRunning, error, messageIdCounter,
                 lastDispatch, outbox, sent>>

Cancel == CancelBody /\ UNCHANGED calc

\* A re-render: the callbacks are recreated over the current isRunning.
Render ==
  /\ closureIsRunning # isRunning
  /\ closureIsRunning' = isRunning
  /\ UNCHANGED <<workerRef, onmessageWorkers, isRunning, progress, error,
                 currentResolverRef, currentIdRef, messageIdCounter, promise,
                 lastCall, lastDispatch, inbox, outbox, sent, pc, req, iteration,
                 converged>>
  /\ UNCHANGED calc

(* ----------------------------- the channel ---------------------------- *)

\* The host's event loop dispatches the oldest message to the handler of the
\* Worker object that posted it.
DeliverToHandler ==
  /\ outbox # <<>>
  /\ Head(outbox).from \in onmessageWorkers
  /\ OnMessage(Head(outbox))
  /\ outbox' = Tail(outbox)
  /\ UNCHANGED <<inbox, sent, pc, req, iteration, converged>>

\* A message event on a Worker object with no onmessage set reaches nothing.
DeliverNoHandler ==
  /\ outbox # <<>>
  /\ Head(outbox).from \notin onmessageWorkers
  /\ outbox' = Tail(outbox)
  /\ UNCHANGED <<hostVars, inbox, sent, pc, req, iteration, converged>>
  /\ UNCHANGED calc

\* terminate() may empty the port's queue: a message of a terminated worker
\* is dispatched or lost.
DiscardOnTerminate ==
  /\ outbox # <<>>
  /\ Head(outbox).from < workerRef
  /\ outbox' = Tail(outbox)
  /\ UNCHANGED <<hostVars, inbox, sent, pc, req, iteration, converged>>
  /\ UNCHANGED calc

(* ------------------------------ the worker ---------------------------- *)

\* Math.min(100, (iteration / maxIterations) * 100), as a rational.
ProgressPercent(iter, maxIterations) ==
  IF iter * FullProgress >= FullProgress * maxIterations
  THEN Fraction(FullProgress, 1)
  ELSE Fraction(iter * FullProgress, maxIterations)

\* Mutant: handleEstimateIRF dividing by the Fermi handler's nominal maximum.
HandlerMaxIterations_Nominal(m) == FermiNominalIterations

\* The maxIterations of the handler that serves m: the denominator of its
\* progress callback.
HandlerMaxIterations(m) ==
  IF m.type = "fitFermiEdge" THEN FermiNominalIterations
  ELSE IF m.maxIterations = Undefined THEN DefaultMaxIterations
  ELSE m.maxIterations

\* The maxIterations option differentialEvolution runs under for m.
DEMaxIterations(m) ==
  IF m.type = "fitFermiEdge" THEN FermiDEIterations
  ELSE IF m.maxIterations = Undefined THEN DefaultMaxIterations
  ELSE m.maxIterations

\* The text of an error thrown inside the fitter.
ThrownText == "TypeError"

\* ctx.postMessage(m).
Post(m) == outbox' = Append(outbox, m)

\* The worker returns from its onmessage handler.
BackToIdle ==
  /\ pc' = "idle"
  /\ req' = NoRequest
  /\ iteration' = 0
  /\ converged' = FALSE

\* ctx.onmessage, case 'fitFermiEdge': handleFitFermiEdge up to the first
\* optimizer.  A throw inside fitFermiEdge is caught there and becomes a
\* failure result.
HandleFitFermiEdge ==
  /\ pc = "idle"
  /\ inbox # <<>>
  /\ Head(inbox).type = "fitFermiEdge"
  /\ inbox' = Tail(inbox)
  /\ IF Head(inbox).argsOk
     THEN /\ pc' = IF Head(inbox).useGlobalOpt THEN "de" ELSE "lm"
          /\ req' = Head(inbox)
          /\ iteration' = 0
          /\ converged' = FALSE
          /\ UNCHANGED outbox
     ELSE /\ Post(ResultMessage(workerRef, Head(inbox).id,
                                [success |-> FALSE, iterations |-> 0]))
          /\ UNCHANGED workerVars
  /\ UNCHANGED <<hostVars, sent>>
  /\ UNCHANGED calc

\* Mutant: handleEstimateIRF without its try/catch: a throw posts nothing.
HandleEstimateIRF_NoCatch ==
  /\ pc = "idle"
  /\ inbox # <<>>
  /\ Head(inbox).type = "estimateIRF"
  /\ inbox' = Tail(inbox)
  /\ IF Head(inbox).argsOk
     THEN /\ pc' = "de"
          /\ req' = Head(inbox)
          /\ iteration' = 0
          /\ converged' = FALSE
     ELSE UNCHANGED workerVars
  /\ UNCHANGED <<hostVars, sent, outbox>>
  /\ UNCHANGED calc

\* ctx.onmessage, case 'estimateIRF': handleEstimateIRF up to the DE loop.
\* A throw inside estimateIRFParameters reaches the handler's catch.
HandleEstimateIRF ==
  /\ pc = "idle"
  /\ inbox # <<>>
  /\ Head(inbox).type = "estimateIRF"
  /\ inbox' = Tail(inbox)
  /\ IF Head(inbox).argsOk
     THEN /\ pc' = "de"
          /\ req' = Head(inbox)
          /\ iteration' = 0
          /\ converged' = FALSE
          /\ UNCHANGED outbox
     ELSE /\ Post(ErrorMessage(workerRef, Head(inbox).id, ThrownText))
          /\ UNCHANGED workerVars
  /\ UNCHANGED <<hostVars, sent>>
  /\ UNCHANGED calc

\* Mutant: a switch without the default case: the message is dropped.
HandleUnknown_NoDefault ==
  /\ pc = "idle"
  /\ inbox # <<>>
  /\ Head(inbox).type \notin {"fitFermiEdge", "estimateIRF"}
  /\ inbox' = Tail(inbox)
  /\ UNCHANGED <<hostVars, sent, workerVars, outbox>>
  /\ UNCHANGED calc

\* ctx.onmessage, default case.
HandleUnknown ==
  /\ pc = "idle"
  /\ inbox # <<>>
  /\ Head(inbox).type \notin {"fitFermiEdge", "estimateIRF"}
  /\ inbox' = Tail(inbox)
  /\ Post(ErrorMessage(workerRef, Head(inbox).id, "Unknown message type"))
  /\ UNCHANGED <<hostVars, sent, workerVars>>
  /\ UNCHANGED calc

\* Mutant: the loop bound off by one.
DELoopGuard_OffByOne == iteration <= DEMaxIterations(req) /\ ~converged

\* while (iteration < maxIterations && !converged)
DELoopGuard == iteration < DEMaxIterations(req) /\ ~converged

\* Mutant: onProgress called before iteration++.
ReportedIteration_BeforeIncrement == iteration

\* The iteration number onProgress is called with in a sweep.
ReportedIteration == iteration + 1

\* One sweep of differentialEvolution's main loop, in which the best fitness
\* improves by d: the population pass, iteration++, onProgress (the handler's
\* callback posts the progress message), the convergence check.
DESweep ==
  /\ pc = "de"
  /\ DELoopGuard
  /\ \E d \in Improvements :
       /\ iteration' = iteration + 1
       /\ Post(ProgressMessage(workerRef, req.id, ReportedIteration,
                 ProgressPercent(ReportedIteration, HandlerMaxIterations(req))))
       /\ converged' = (d < Tolerance)
  /\ UNCHANGED <<hostVars, inbox, sent, pc, req>>
  /\ UNCHANGED calc

\* curveFit: differentialEvolution returned, Levenberg-Marquardt is next.
CurveFitRefine ==
  /\ pc = "de"
  /\ ~DELoopGuard
  /\ req.type = "fitFermiEdge"
  /\ pc' = "lm"
  /\ UNCHANGED <<hostVars, inbox, outbox, sent, req, iteration, converged>>
  /\ UNCHANGED calc

\* fitFermiEdge returned a success result, handleFitFermiEdge posts it.
FitFermiEdgeReturn ==
  /\ pc = "lm"
  /\ Post(ResultMessage(workerRef, req.id, [success |-> TRUE, iterations |-> 0]))
  /\ BackToIdle
  /\ UNCHANGED <<hostVars, inbox, sent>>
  /\ UNCHANGED calc

\* estimateIRFParameters returned (success: deResult.converged, iterations:
\* deResult.iterations), handleEstimateIRF posts it.
EstimateIRFReturn ==
  /\ pc = "de"
  /\ ~DELoopGuard
  /\ req.type = "estimateIRF"
  /\ Post(ResultMessage(workerRef, req.id,
                        [success |-> converged, iterations |-> iteration]))
  /\ BackToIdle
  /\ UNCHANGED <<hostVars, inbox, sent>>
  /\ UNCHANGED calc

WorkerStep ==
  \/ HandleFitFermiEdge
  \/ HandleEstimateIRF
  \/ HandleUnknown
  \/ DESweep
  \/ CurveFitRefine
  \/ FitFermiEdgeReturn
  \/ EstimateIRFReturn

(* --------------------------- specifications --------------------------- *)

\* What a caller of estimateIRF passes as maxIterations.
IterInputs == (0..MaxIterInput) \cup {DefaultMaxIterations}

\* The hook after its effect ran, the worker idle, nothing posted.
HookInit ==
  /\ workerRef = 1
  /\ onmessageWorkers = {1}
  /\ isRunning = FALSE
  /\ closureIsRunning = FALSE
  /\ progress = <<>>
  /\ error = NoError
  /\ currentResolverRef = NoId
  /\ currentIdRef = NoId
  /\ messageIdCounter = 1
  /\ promise = [id \in Ids |-> NoPromise]
  /\ lastCall = CallRecord("none", "none")
  /\ lastDispatch = [id |-> NoId, type |-> "none", ignored |-> FALSE]
  /\ inbox = <<>>
  /\ outbox = <<>>
  /\ sent = [id \in Ids |-> NoRequest]
  /\ pc = "idle"
  /\ req = NoRequest
  /\ iteration = 0
  /\ converged = FALSE

Init == HookInit /\ calc = NoCalc

CallFitFermiEdge == \E g \in BOOLEAN, ok \in BOOLEAN : FitFermiEdgeCall(g, ok)

CallEstimateIRF == \E n \in IterInputs, ok \in BOOLEAN : EstimateIRFCall(n, ok)

\* The worker of Spec runs while fewer than MaxOutbox messages wait.
OutboxHasRoom == Len(outbox) < MaxOutbox

Next ==
  \/ CallFitFermiEdge
  \/ CallEstimateIRF
  \/ Cancel
  \/ Render
  \/ DeliverToHandler
  \/ DeliverNoHandler
  \/ DiscardOnTerminate
  \/ OutboxHasRoom /\ HandleFitFermiEdge
  \/ OutboxHasRoom /\ HandleEstimateIRF
  \/ OutboxHasRoom /\ DESweep
  \/ OutboxHasRoom /\ CurveFitRefine
  \/ OutboxHasRoom /\ FitFermiEdgeReturn
  \/ OutboxHasRoom /\ EstimateIRFReturn

Spec == Init /\ [][Next]_vars

\* The event loops run what is ready: the worker thread its handler, the host's
\* loop the message events and React's scheduled re-render.  Calls of the
\* hook (the user's) are under no fairness.
FairSpec ==
  /\ Spec
  /\ WF_vars(OutboxHasRoom /\ WorkerStep)
  /\ WF_vars(DeliverToHandler \/ DeliverNoHandler)
  /\ WF_vars(Render)

(* ------------------- the hook alone, any worker ----------------------- *)

\* The messages a worker may post to the hook: one of each type for each id.
HostInputs ==
  {ProgressMessage(1, id, 1, ProgressPercent(1, DefaultMaxIterations)) : id \in Ids}
  \cup {ResultMessage(1, id, [success |-> TRUE, iterations |-> 0]) : id \in Ids}
  \cup {ErrorMessage(1, id, ThrownText) : id \in Ids}

\* A message event on the Worker object the effect created.
HostDispatch(m) ==
  /\ OnMessage(m)
  /\ UNCHANGED <<inbox, outbox, sent, pc, req, iteration, converged>>

HostMessage == \E m \in HostInputs : HostDispatch(m)

\* An error event on the Worker object the effect created.
HostError ==
  /\ OnError("worker error")
  /\ UNCHANGED <<inbox, outbox, sent, pc, req, iteration, converged>>

HostNext ==
  \/ CallFitFermiEdge
  \/ CallEstimateIRF
  \/ Cancel
  \/ Render
  \/ HostMessage
  \/ HostError

HostSpec == Init /\ [][HostNext]_vars

(* ------------------ the worker alone, any request --------------------- *)

\* The request messages that may reach the worker under id.
WorkerInputs(id) ==
  {FitFermiEdgeMessage(id, g, ok) : g \in BOOLEAN, ok \in BOOLEAN}
  \cup {EstimateIRFMessage(id, n, ok) :
          n \in IterInputs \cup {Undefined}, ok \in BOOLEAN}
  \cup {UnknownMessage(id)}

\* worker.postMessage(m) by whoever owns the worker.
PostRequest(m) ==
  /\ messageIdCounter <= Min(MaxPosts, MaxId)
  /\ messageIdCounter' = messageIdCounter + 1
  /\ inbox' = Append(inbox, m)
  /\ sent' = [sent EXCEPT ![m.id] = m]
  /\ UNCHANGED <<workerRef, onmessageWorkers, isRunning, closureIsRunning, progress,
                 error, currentResolverRef, currentIdRef, promise, lastCall,
                 lastDispatch, outbox, pc, req, iteration, converged>>
  /\ UNCHANGED calc

PostAnyRequest == \E m \in WorkerInputs(messageIdCounter) : PostRequest(m)

WorkerNext ==
  \/ PostAnyRequest
  \/ HandleFitFermiEdge
  \/ HandleEstimateIRF
  \/ HandleUnknown
  \/ DESweep
  \/ CurveFitRefine
  \/ FitFermiEdgeReturn
  \/ EstimateIRFReturn

WorkerSpec == Init /\ [][WorkerNext]_vars

(* ====================================================================== *)
(*                               the claims                               *)
(* ====================================================================== *)

\* A started request whose promise has neither resolved nor rejected.
InFlight == \E id \in Ids : promise[id].state = "pending"

\* C1: a call of fitFermiEdge or estimateIRF made while an earlier request has
\* not reached a terminal outcome is rejected with 'Another operation is in
\* progress', posts no message to the worker and leaves the current request
\* id and the resolver unchanged.
C1_SecondCallRejected ==
  [][(InFlight /\ (CallFitFermiEdge \/ CallEstimateIRF)) =>
       /\ lastCall' = "Another operation is in progress"
       /\ UNCHANGED <<inbox, currentIdRef, currentResolverRef>>]_vars

\* The worker has posted the terminal message of request id.
TerminalPosted(id) ==
  \E i \in 1..Len(outbox) : outbox[i].id = id /\ IsTerminal(outbox[i])

\* C2: every request whose worker posts its terminal message eventually has
\* its promise settled (resolved, rejected with the error, or rejected as
\* cancelled) with the host back to not running, a request started after a
\* cancel included.  Stated for a request that is the host's current one, with
\* its start rendered (no later call can take its place), when its terminal
\* message is posted.
C2_EveryRequestSettles ==
  \A id \in Ids :
    (TerminalPosted(id) /\ currentIdRef = id /\ isRunning /\ closureIsRunning)
      ~> (promise[id].state \in {"resolved", "rejected"} /\ ~isRunning)

\* C3: cancel() while a request is running terminates the worker, rejects the
\* in-flight promise with 'Operation cancelled' and clears the current id, the
\* progress and the running flag; a promise so rejected never gets a result;
\* cancel() while nothing is running changes nothing.
C3_Cancel ==
  [][/\ Cancel =>
          IF isRunning
          THEN /\ workerRef' # workerRef
               /\ pc' = "idle"
               /\ inbox' = <<>>
               /\ currentResolverRef # NoId =>
                    promise'[currentResolverRef] = Rejected("Operation cancelled")
               /\ currentResolverRef' = NoId
               /\ currentIdRef' = NoId
               /\ progress' = <<>>
               /\ isRunning' = FALSE
          ELSE UNCHANGED <<workerRef, onmessageWorkers, isRunning, progress, error,
                           currentResolverRef, currentIdRef, promise, inbox, outbox,
                           pc, req, iteration, converged>>
     /\ \A id \in Ids :
          promise[id] = Rejected("Operation cancelled") => promise'[id] = promise[id]
    ]_vars

\* C4: a worker message whose id is not the current request id changes neither
\* progress, error, the running flag nor any promise when it is dispatched.
C4_StaleMessageDropped ==
  [][(outbox # <<>> /\ outbox' = Tail(outbox) /\ Head(outbox).id # currentIdRef) =>
       UNCHANGED <<progress, error, isRunning, promise, currentResolverRef>>]_vars

\* C4 witness: a late progress message of a request that is not the current
\* one has reached onmessage and been dropped, with another request current.
C4_Witness ==
  /\ lastDispatch.type = "progress"
  /\ lastDispatch.ignored
  /\ currentIdRef # NoId
  /\ lastDispatch.id # currentIdRef
  /\ isRunning

\* The host has processed the result or the error message of request id: its
\* promise resolved, or rejected with the text of a worker's error message.
TerminalHandled(id) ==
  \/ promise[id].state = "resolved"
  \/ promise[id] = Rejected(ThrownText)

\* C5: once the host has processed a result or error message for an id, a
\* further message bearing that id changes no host state (progress, error,
\* running flag) and settles no promise.
C5_NothingAfterTerminal ==
  [][\A m \in HostInputs :
       (TerminalHandled(m.id) /\ HostDispatch(m)) =>
         UNCHANGED <<progress, error, isRunning, promise>>]_vars

(* ----------------------- claims about the worker ---------------------- *)

\* The messages the worker has posted for request id, in order (under
\* WorkerSpec nothing is taken out of the outbox).
MessagesOf(id) == SelectSeq(outbox, LAMBDA m : m.id = id)

\* The progress messages the worker has posted for request id, in order.
ProgressOf(id) == SelectSeq(outbox, LAMBDA m : m.id = id /\ m.type = "progress")

\* The worker has received request id and has returned from its handler.
Handled(id) ==
  /\ sent[id].type # "none"
  /\ req.id # id
  /\ \A i \in 1..Len(inbox) : inbox[i].id # id

C7_ProgressInOrder ==
  \A id \in Ids :
    LET ms == MessagesOf(id)
        ps == ProgressOf(id)
    IN  /\ \A i \in 1..Len(ps) : ps[i].iteration = i
        /\ \A i \in 1..Len(ms) : ms[i].type # "progress" => i = Len(ms)

\* C7 witness: a handled request with three or more progress messages
\* before its result.
C7_Witness ==
  \E id \in Ids :
    /\ Handled(id)
    /\ Len(ProgressOf(id)) >= 3
    /\ MessagesOf(id)[Len(MessagesOf(id))].type = "result"

\* An IRF estimation requested with max_iterations = 50 (given, or left to
\* the default), with arguments the fitter accepts, that the worker has handled.
HandledIRF50(id) ==
  /\ Handled(id)
  /\ sent[id].type = "estimateIRF"
  /\ sent[id].argsOk
  /\ sent[id].maxIterations \in {DefaultMaxIterations, Undefined}

\* C8 as stated: an IRF estimation with max_iterations = 50 emits exactly 50
\* progress messages, iterations 1..50 increasing, then one terminal result.
C8_Exactly50 ==
  \A id \in Ids :
    HandledIRF50(id) =>
      LET ms == MessagesOf(id)
          ps == ProgressOf(id)
      IN  /\ Len(ps) = DefaultMaxIterations
          /\ \A i \in 1..Len(ps) : ps[i].iteration = i
          /\ Len(ms) = Len(ps) + 1
          /\ ms[Len(ms)].type = "result"

\* C8 amended: an IRF estimation with max_iterations = 50 emits k progress
\* messages, 1 <= k <= 50, with iterations 1..k in order, then one terminal
\* result whose iterations is k; k is below 50 only if DE's tolerance test
\* stopped the run (the result's success is true).
C8_AtMost50 ==
  \A id \in Ids :
    HandledIRF50(id) =>
      LET ms == MessagesOf(id)
          ps == ProgressOf(id)
      IN  /\ Len(ps) >= 1
          /\ Len(ps) <= DefaultMaxIterations
          /\ \A i \in 1..Len(ps) : ps[i].iteration = i
          /\ Len(ms) = Len(ps) + 1
          /\ \A i \in 1..Len(ps) : ms[i].type = "progress"
          /\ ms[Len(ms)].type = "result"
          /\ ms[Len(ms)].result.iterations = Len(ps)
          /\ Len(ps) < DefaultMaxIterations => ms[Len(ms)].result.success

\* C8 witness: such an estimation ran all 50 sweeps without meeting the
\* tolerance test, and its result is posted.
C8_Witness ==
  \E id \in Ids :
    /\ HandledIRF50(id)
    /\ Len(ProgressOf(id)) = DefaultMaxIterations
    /\ ~MessagesOf(id)[Len(MessagesOf(id))].result.success

\* C9: a message of a type other than 'fitFermiEdge' and 'estimateIRF' makes
\* the worker post exactly one message, an error with the text 'Unknown
\* message type' and the message's id, and no fitter runs for it.
C9_UnknownType ==
  /\ \A id \in Ids :
       (Handled(id) /\ sent[id].type \notin {"fitFermiEdge", "estimateIRF"}) =>
         MessagesOf(id) = <<ErrorMessage(workerRef, id, "Unknown message type")>>
  /\ pc # "idle" => req.type \in {"fitFermiEdge", "estimateIRF"}
  /\ \A i \in 1..Len(outbox) :
       sent[outbox[i].id].type \notin {"fitFermiEdge", "estimateIRF"} =>
         outbox[i].type = "error"

\* C9 witness: the worker has handled a message of unknown type and is idle
\* again, its answer posted.
C9_Witness ==
  \E id \in Ids :
    /\ Handled(id)
    /\ sent[id].type = "unknown"
    /\ MessagesOf(id) # <<>>
    /\ pc = "idle"

\* The max_iterations the progress of request m is measured against: the
\* nominal 100 of a Fermi-edge fit, the caller's maximum (default 50) of an
\* IRF estimation.
ClaimedMaxIterations(m) ==
  IF m.type = "fitFermiEdge" THEN 100
  ELSE IF m.maxIterations = Undefined THEN 50
  ELSE m.maxIterations

\* C10: every progress message has progress = min(100, iteration /
\* max_iterations * 100); progress lies in 0..100 and never decreases over
\* the messages of one request.  p.n / p.d is the percentage.
C10_ProgressValue ==
  /\ \A i \in 1..Len(outbox) :
       outbox[i].type = "progress" =>
         LET p == outbox[i].progress
             it == outbox[i].iteration
             max == ClaimedMaxIterations(sent[outbox[i].id])
         IN  /\ p.d > 0
             /\ IF it * 100 >= 100 * max
                THEN p.n = 100 * p.d
                ELSE p.n * max = it * 100 * p.d
             /\ 0 <= p.n /\ p.n <= 100 * p.d
  /\ \A id \in Ids :
       LET ps == ProgressOf(id)
       IN  \A i \in 1..(Len(ps) - 1) :
             ps[i].progress.n * ps[i + 1].progress.d
               <= ps[i + 1].progress.n * ps[i].progress.d

\* C10 witness: an IRF estimation under the default maximum has reported
\* iteration 3 as 6 percent and, later, iteration 50 as 100 percent.
C10_Witness ==
  \E i \in 1..Len(outbox), j \in 1..Len(outbox) :
    /\ outbox[i].type = "progress" /\ outbox[j].type = "progress"
    /\ outbox[i].id = outbox[j].id
    /\ sent[outbox[i].id] = EstimateIRFMessage(outbox[i].id, Undefined, TRUE)
    /\ outbox[i].iteration = 3 /\ outbox[j].iteration = 50
    /\ outbox[i].progress = Fraction(300, 50)
    /\ outbox[j].progress = Fraction(100, 1)

(* ====================================================================== *)
(*                        the numerical library                           *)
(* ====================================================================== *)

(* --------------------------- bounds (library) ------------------------- *)

\* Longest energy axis and longest spectrum handed to fitFermiEdge.
MaxAxis == 3

(* ----------------------------- JS numbers ----------------------------- *)

\* A JS number is a finite value, NaN or an infinity; undefined is what an
\* index past the end of an array reads.
Num(v) == [k |-> "num", v |-> v]
NaN == [k |-> "nan", v |-> 0]
PosInf == [k |-> "inf", v |-> 1]
NegInf == [k |-> "inf", v |-> -1]
Undef == [k |-> "undef", v |-> 0]

\* array[i] for the 0-based index i.
At(array, i) == IF i + 1 \in 1..Len(array) THEN array[i + 1] ELSE Undef

\* a - b (undefined converts to NaN).
Sub(a, b) ==
  IF a.k \in {"nan", "undef"} \/ b.k \in {"nan", "undef"} THEN NaN
  ELSE IF a.k = "inf" /\ b.k = "inf" THEN (IF a.v = b.v THEN NaN ELSE a)
  ELSE IF a.k = "inf" THEN a
  ELSE IF b.k = "inf" THEN [k |-> "inf", v |-> 0 - b.v]
  ELSE Num(a.v - b.v)

\* Math.abs(a).
Abs(a) ==
  IF a.k = "num" THEN Num(IF a.v < 0 THEN 0 - a.v ELSE a.v)
  ELSE IF a.k = "inf" THEN PosInf
  ELSE NaN

\* Math.ceil(n / d) for a finite n > 0 and a number d >= 0 that is not NaN.
CeilDiv(n, d) ==
  IF d.k = "inf" THEN Num(0)
  ELSE IF d.v = 0 THEN PosInf
  ELSE Num((n + d.v - 1) \div d.v)

\* Math.max(lo, Math.min(hi, a)): NaN stays NaN.
Clamp(lo, hi, a) ==
  IF a.k \in {"nan", "undef"} THEN NaN
  ELSE IF a.k = "inf" THEN Num(IF a.v > 0 THEN hi ELSE lo)
  ELSE Num(IF a.v < lo THEN lo ELSE IF a.v > hi THEN hi ELSE a.v)

\* isFinite(a).
IsFinite(a) == a.k = "num"

\* The arrays of at most n elements of S.
ArraysUpTo(S, n) == UNION {[1..len -> S] : len \in 0..n}

(* --------------------------- fitFermiEdge ----------------------------- *)

\* An argument that is an array, and one that is none (undefined).
AnArray(items) == [isArray |-> TRUE, items |-> items]
NotAnArray == [isArray |-> FALSE, items |-> <<>>]

\* initialParams: sigma_total = 0.005 eV, in the axis unit (meV).
InitialSigma == 5

\* fermiDiracConvolved: nPad is between 10 and 1000.
MinPad == 10
MaxPad == 1000

\* fermiDiracConvolved: de = Math.abs(energy[1] - energy[0]).
EnergyStep(energy) == Abs(Sub(At(energy, 1), At(energy, 0)))

\* fermiDiracConvolved: nPad = Math.max(10, Math.min(1000, Math.ceil(10 * sigmaTotal / de))).
PadSize(energy, sigma) ==
  IF EnergyStep(energy).k = "nan" THEN NaN
  ELSE Clamp(MinPad, MaxPad, CeilDiv(10 * sigma, EnergyStep(energy)))

\* gaussianKernel: width = Math.ceil(5 * sigma / de).
KernelWidth(energy, sigma) ==
  IF EnergyStep(energy).k = "nan" THEN NaN
  ELSE CeilDiv(5 * sigma, EnergyStep(energy))

\* gaussianKernel: the loop for (i = -width; i <= width; i++) never ends when
\* width is Infinity.
KernelLoopEnds(energy, sigma) == KernelWidth(energy, sigma).k # "inf"

\* gaussianKernel: length of the kernel (the loop body never runs when width
\* is NaN; [1] when width <= 0).
KernelLength(energy, sigma) ==
  LET width == KernelWidth(energy, sigma)
  IN  IF width.k = "nan" THEN 0
      ELSE IF width.v <= 0 THEN 1
      ELSE 2 * width.v + 1

\* fermiDiracConvolved: length of energyPadded (no padding loop runs when
\* nPad is NaN), which convolve keeps.
PaddedLength(energy, sigma) ==
  LET nPad == PadSize(energy, sigma)
  IN  IF nPad.k = "nan" THEN Len(energy) ELSE Len(energy) + 2 * nPad.v

\* fermiDiracConvolved: length of convolvedFull.slice(nPad, nPad + energy.length)
\* (slice takes NaN as 0).
PredictedLength(energy, sigma) ==
  LET nPad == PadSize(energy, sigma)
      from == IF nPad.k = "nan" THEN 0 ELSE nPad.v
      to == IF nPad.k = "nan" THEN 0 ELSE nPad.v + Len(energy)
      full == PaddedLength(energy, sigma)
  IN  IF Min(to, full) > from THEN Min(to, full) - from ELSE 0

\* curveFit residualFunc: yData.map((y, i) => y - predicted[i]), one residual
\* per sample of the spectrum; past the prediction's end it is NaN.
ResidualIsNaN(energy, spectrum, sigma) ==
  [i \in 1..Len(spectrum) |->
     \/ ~IsFinite(spectrum[i])
     \/ i > PredictedLength(energy, sigma)
     \/ \E j \in 1..Len(energy) : energy[j].k = "nan"]

\* What fitFermiEdge is called with.
EnergyValues == {Num(0), Num(1), Num(2), NaN, PosInf}
SpectrumValues == {Num(1), NaN}

FitInputs ==
  [fn : {"fitFermiEdge"}, pc : {"try"},
   energy : {AnArray(a) : a \in ArraysUpTo(EnergyValues, MaxAxis)} \cup {NotAnArray},
   observedSpectrum : {AnArray(a) : a \in ArraysUpTo(SpectrumValues, MaxAxis)},
   fitTemp : BOOLEAN, useGlobalOpt : BOOLEAN,
   residualIsNaN : {<<>>},
   result : {[returned |-> FALSE, success |-> FALSE, errorMessage |-> ""]}]

\* fitFermiEdge: the try block up to the first evaluation of the model by
\* curveFit.  Reading energy[1] of a value that is no array throws; a kernel
\* of infinite width never gets built.
FitEvaluateModel ==
  /\ calc.fn = "fitFermiEdge"
  /\ calc.pc = "try"
  /\ IF ~calc.energy.isArray
     THEN calc' = [calc EXCEPT !.pc = "catch"]
     ELSE IF ~KernelLoopEnds(calc.energy.items, InitialSigma)
     THEN calc' = [calc EXCEPT !.pc = "kernel loop"]
     ELSE calc' = [calc EXCEPT
            !.pc = "curveFit",
            !.residualIsNaN = ResidualIsNaN(calc.energy.items,
                                calc.observedSpectrum.items, InitialSigma)]
  /\ UNCHANGED vars

\* fitFermiEdge: curveFit returned (differentialEvolution, levenbergMarquardt
\* and the projection read no property of undefined, whatever the residuals:
\* NaN only propagates); return { success: true, ... }.
FitReturnSuccess ==
  /\ calc.fn = "fitFermiEdge"
  /\ calc.pc = "curveFit"
  /\ calc' = [calc EXCEPT !.pc = "done",
                !.result = [returned |-> TRUE, success |-> TRUE, errorMessage |-> ""]]
  /\ UNCHANGED vars

\* fitFermiEdge: catch (error) { return { success: false, ..., errorMessage } }.
FitReturnFailure ==
  /\ calc.fn = "fitFermiEdge"
  /\ calc.pc = "catch"
  /\ calc' = [calc EXCEPT !.pc = "done",
                !.result = [returned |-> TRUE, success |-> FALSE,
                            errorMessage |-> "Cannot read properties of undefined"]]
  /\ UNCHANGED vars

FitInit == HookInit /\ calc \in FitInputs

FitNext == FitEvaluateModel \/ FitReturnSuccess \/ FitReturnFailure

FitSpec == FitInit /\ [][FitNext]_allVars

\* The input of fitFermiEdge is invalid: an empty energy or spectrum array,
\* arrays of different lengths, or a value that is not finite.
InvalidFitInput ==
  /\ calc.fn = "fitFermiEdge"
  /\ calc.energy.isArray
  /\ \/ calc.energy.items = <<>>
     \/ calc.observedSpectrum.items = <<>>
     \/ Len(calc.energy.items) # Len(calc.observedSpectrum.items)
     \/ \E i \in 1..Len(calc.energy.items) : ~IsFinite(calc.energy.items[i])
     \/ \E i \in 1..Len(calc.observedSpectrum.items) :
          ~IsFinite(calc.observedSpectrum.items[i])

\* C11: fitFermiEdge called with invalid input (empty energy or spectrum,
\* different lengths, non-finite values) returns success = false with a
\* descriptive error message; it never returns success = true for it.
C11_InvalidInputFails ==
  (InvalidFitInput /\ calc.result.returned) =>
    (~calc.result.success /\ calc.result.errorMessage # "")

(* ------------------------ createRandom (Mulberry32) ------------------- *)

\* A 32-bit word, as its two 16-bit halves.
Half == 65536
Word(hi, lo) == [hi |-> hi, lo |-> lo]

\* a ^ b and a | b on bytes, tabulated bit by bit.
Byte == 256
Bit(a, k) == (a \div (2 ^ k)) % 2
Xor8 ==
  [a \in 0..(Byte - 1) |-> [b \in 0..(Byte - 1) |->
     ((Bit(a, 0) + Bit(b, 0)) % 2) + (2 * ((Bit(a, 1) + Bit(b, 1)) % 2))
       + (4 * ((Bit(a, 2) + Bit(b, 2)) % 2)) + (8 * ((Bit(a, 3) + Bit(b, 3)) % 2))
       + (16 * ((Bit(a, 4) + Bit(b, 4)) % 2)) + (32 * ((Bit(a, 5) + Bit(b, 5)) % 2))
       + (64 * ((Bit(a, 6) + Bit(b, 6)) % 2)) + (128 * ((Bit(a, 7) + Bit(b, 7)) % 2))]]

\* a | small for the two constants the generator uses, 1 and 61.
Or8(a, small) ==
  IF small = 1 THEN a + (1 - Bit(a, 0))
  ELSE (a - (a % 64)) + 61 + (2 * Bit(a, 1))

\* a ^ b on 16-bit halves and on words; a | small on words.
Xor16(a, b) == Xor8[a % Byte][b % Byte] + (Byte * Xor8[a \div Byte][b \div Byte])
Xor32(a, b) == Word(Xor16(a.hi, b.hi), Xor16(a.lo, b.lo))
OrLow(a, small) == Word(a.hi, (a.lo - (a.lo % Byte)) + Or8(a.lo % Byte, small))

\* a + b truncated to 32 bits.
Add32(a, b) ==
  Word((a.hi + b.hi + ((a.lo + b.lo) \div Half)) % Half, (a.lo + b.lo) % Half)

\* a >>> n for 0 < n < 16.
Shr(a, n) ==
  Word(a.hi \div (2 ^ n), ((a.hi % (2 ^ n)) * (2 ^ (16 - n))) + (a.lo \div (2 ^ n)))

\* The low 16 bits, and all 32 bits, of the product of two 16-bit halves.
MulLow16(a, b) ==
  LET a1 == a \div 256
      a0 == a % 256
      b1 == b \div 256
      b0 == b % 256
  IN  ((a0 * b0) + ((((a1 * b0) + (a0 * b1)) % 256) * 256)) % Half

Mul16(a, b) ==
  LET a1 == a \div 256
      a0 == a % 256
      b1 == b \div 256
      b0 == b % 256
      mid == (a1 * b0) + (a0 * b1)
      low == (a0 * b0) + ((mid % 256) * 256)
  IN  Word(((a1 * b1) + (mid \div 256) + (low \div Half)) % Half, low % Half)

\* Math.imul(a, b): the product truncated to 32 bits.
Imul(a, b) ==
  LET ll == Mul16(a.lo, b.lo)
  IN  Word((ll.hi + MulLow16(a.hi, b.lo) + MulLow16(a.lo, b.hi)) % Half, ll.lo)

\* 0x6D2B79F5.
Increment == Word(27947, 31221)

\* One call of the closure createRandom returns: the new seed and the 32-bit
\* numerator of the value (value / 4294967296 is the number returned).
MixLast(s, t) == [seed |-> s, value |-> Xor32(t, Shr(t, 14))]
MixSecond(s, t) ==
  MixLast(s, Xor32(t, Add32(t, Imul(Xor32(t, Shr(t, 7)), OrLow(t, 61)))))
MixFirst(s) == MixSecond(s, Imul(Xor32(s, Shr(s, 15)), OrLow(s, 1)))
Mulberry32(seed) == MixFirst(Add32(seed, Increment))

\* createRandom(seed): a source of numbers in [0, 1).  tape is empty for the
\* closure createRandom returns; a source with a tape hands out the tape's
\* values first (any () => number).  drawn lists what it has handed out.
CreateRandom(seed) == [seed |-> Word(seed \div Half, seed % Half), tape |-> <<>>, drawn |-> <<>>]

\* random(): the source after the call, and the value's numerator.
Drawn(rand, r) ==
  [rand |-> [rand EXCEPT !.seed = r.seed, !.drawn = Append(rand.drawn, r.value)],
   value |-> r.value]

Random(rand) ==
  IF rand.tape # <<>>
  THEN [rand |-> [rand EXCEPT !.tape = Tail(rand.tape),
                              !.drawn = Append(rand.drawn, Head(rand.tape))],
        value |-> Head(rand.tape)]
  ELSE Drawn(rand, Mulberry32(rand.seed))

\* Math.floor(value * n) for the number value / 2^32 and an integer 0 < n < 2^15.
ScaleFloor(value, n) == ((value.hi * n) + ((value.lo * n) \div Half)) \div Half

\* crossoverRate = 0.7, as the largest numerator below 0.7 * 2^32.
CrossoverRate == Word(45875, 13107)

\* value < crossoverRate.
BelowCrossoverRate(value) ==
  \/ value.hi < CrossoverRate.hi
  \/ value.hi = CrossoverRate.hi /\ value.lo <= CrossoverRate.lo

(* ------------------------ differentialEvolution ----------------------- *)

\* populationSize of every call (15 in the repository), the width of every
\* parameter's bounds in grid units, the largest dim and the largest
\* maxIterations of a call.
PopulationSize == 4
GridSpan == 8
MaxDim == 2
MaxSweeps == 3

\* mutationFactor = 0.8 = MutationNum / MutationDen.
MutationNum == 4
MutationDen == 5

\* The seeds of the calls: the default, 42, and another one.
Seeds == {42, 20240229}

\* The two calls made with the same arguments.
Runs == {1, 2}

\* A deterministic objective: constant, or the squared distance to a target.
\* Positions are kept to one grid unit and fitness to one fitness unit.
RECURSIVE SquaredDistance(_, _)
SquaredDistance(x, target) ==
  IF x = <<>> THEN 0
  ELSE ((Head(x) - Head(target)) * (Head(x) - Head(target)))
         + SquaredDistance(Tail(x), Tail(target))

Objective(objective, x) ==
  IF objective.kind = "flat" THEN 0 ELSE SquaredDistance(x, objective.target)

\* low + random() * (high - low), to the grid.
Component(low, high, value) == low + ScaleFloor(value, high - low)

\* bounds.lower.map(...): the components are drawn in the order of j.
RECURSIVE InitIndividual(_, _, _, _)
InitComponent(r, bounds, j, individual) ==
  InitIndividual(r.rand, bounds, j + 1,
                 Append(individual, Component(bounds.lower[j], bounds.upper[j], r.value)))

InitIndividual(rand, bounds, j, individual) ==
  IF j > Len(bounds.lower) THEN [rand |-> rand, individual |-> individual]
  ELSE InitComponent(Random(rand), bounds, j, individual)

RECURSIVE InitPopulation(_, _, _, _, _, _)
PushIndividual(ind, objective, bounds, i, population, fitness) ==
  InitPopulation(ind.rand, objective, bounds, i + 1,
                 Append(population, ind.individual),
                 Append(fitness, Objective(objective, ind.individual)))

InitPopulation(rand, objective, bounds, i, population, fitness) ==
  IF i >= PopulationSize
  THEN [rand |-> rand, population |-> population, fitness |-> fitness]
  ELSE PushIndividual(InitIndividual(rand, bounds, 1, <<>>),
                      objective, bounds, i, population, fitness)

\* The index (from 0) of the first individual of least fitness.
RECURSIVE FindBest(_, _, _)
FindBest(fitness, i, bestIdx) ==
  IF i >= Len(fitness) THEN bestIdx
  ELSE FindBest(fitness, i + 1,
                IF fitness[i + 1] < fitness[bestIdx + 1] THEN i ELSE bestIdx)

\* while (candidates.length < 3): three distinct indices, none of them i.
RECURSIVE SelectCandidates(_, _, _)
PushCandidate(r, idx, i, candidates) ==
  IF idx # i /\ \A k \in 1..Len(candidates) : candidates[k] # idx
  THEN SelectCandidates(r.rand, i, Append(candidates, idx))
  ELSE SelectCandidates(r.rand, i, candidates)

DrawCandidate(r, i, candidates) ==
  PushCandidate(r, ScaleFloor(r.value, PopulationSize), i, candidates)

SelectCandidates(rand, i, candidates) ==
  IF Len(candidates) >= 3 THEN [rand |-> rand, candidates |-> candidates]
  ELSE DrawCandidate(Random(rand), i, candidates)

\* mutationFactor * d, to the grid.
Scaled(d) == (MutationNum * d) \div MutationDen

\* Math.max(lower, Math.min(upper, v)).
Within(lower, upper, v) == IF v > upper THEN upper ELSE IF v < lower THEN lower ELSE v

\* The donor vector left as computed.
Donor_Unclamped(population, bounds, a, b, c) ==
  [j \in 1..Len(bounds.lower) |->
     population[a + 1][j] + Scaled(population[b + 1][j] - population[c + 1][j])]

\* The donor vector, brought within bounds.
Donor(population, bounds, a, b, c) ==
  [j \in 1..Len(bounds.lower) |->
     Within(bounds.lower[j], bounds.upper[j],
            population[a + 1][j] + Scaled(population[b + 1][j] - population[c + 1][j]))]

\* population[i].map(...): the trial vector, and the dimensions (from 1) it
\* took from the donor.  The second number is drawn only when the first is
\* not below crossoverRate, and anew for every j.
RECURSIVE Crossover(_, _, _, _, _, _)
TakeDonor(rand, target, donor, j, trial, inherited) ==
  Crossover(rand, target, donor, j + 1, Append(trial, donor[j]), inherited \cup {j})

KeepTarget(rand, target, donor, j, trial, inherited) ==
  Crossover(rand, target, donor, j + 1, Append(trial, target[j]), inherited)

SecondDraw(r2, target, donor, j, trial, inherited) ==
  IF (j - 1) = ScaleFloor(r2.value, Len(target))
  THEN TakeDonor(r2.rand, target, donor, j, trial, inherited)
  ELSE KeepTarget(r2.rand, target, donor, j, trial, inherited)

FirstDraw(r1, target, donor, j, trial, inherited) ==
  IF BelowCrossoverRate(r1.value)
  THEN TakeDonor(r1.rand, target, donor, j, trial, inherited)
  ELSE SecondDraw(Random(r1.rand), target, donor, j, trial, inherited)

Crossover(rand, target, donor, j, trial, inherited) ==
  IF j > Len(target)
  THEN [rand |-> rand, trial |-> trial, inherited |-> inherited, donor |-> donor]
  ELSE FirstDraw(Random(rand), target, donor, j, trial, inherited)

\* The selection with trialFitness <= fitness[i] in place of <.
Selection_NotStrict(run, i, cross, trialFitness) ==
  IF trialFitness <= run.fitness[i + 1]
  THEN [run EXCEPT !.rand = cross.rand,
                   !.population[i + 1] = cross.trial,
                   !.fitness[i + 1] = trialFitness,
                   !.bestFitness = IF trialFitness < @ THEN trialFitness ELSE @,
                   !.bestIndividual = IF trialFitness < run.bestFitness THEN cross.trial ELSE @,
                   !.bestIdx = IF trialFitness < run.bestFitness THEN i ELSE @]
  ELSE [run EXCEPT !.rand = cross.rand]

\* Selection: the trial replaces the target when it is better, and the best
\* individual when it is better than that.
Selection(run, i, cross, trialFitness) ==
  IF trialFitness < run.fitness[i + 1]
  THEN IF trialFitness < run.bestFitness
       THEN [run EXCEPT !.rand = cross.rand,
                        !.population[i + 1] = cross.trial,
                        !.fitness[i + 1] = trialFitness,
                        !.bestFitness = trialFitness,
                        !.bestIndividual = cross.trial,
                        !.bestIdx = i]
       ELSE [run EXCEPT !.rand = cross.rand,
                        !.population[i + 1] = cross.trial,
                        !.fitness[i + 1] = trialFitness]
  ELSE [run EXCEPT !.rand = cross.rand]

\* The donor and the trial vector of a target, kept for inspection.
Recorded(run, cross) ==
  [run EXCEPT !.donors = @ \cup {cross.donor}, !.trials = @ \cup {cross.trial}]

\* One more call of the objective.
Evaluated(run) == [run EXCEPT !.evaluations = @ + 1]

Trial(run, objective, i, cross) ==
  Selection(Evaluated(Recorded(run, cross)), i, cross, Objective(objective, cross.trial))

Mutation(run, objective, bounds, i, sel) ==
  Trial(run, objective, i,
        Crossover(sel.rand, run.population[i + 1],
                  Donor(run.population, bounds,
                        sel.candidates[1], sel.candidates[2], sel.candidates[3]),
                  1, <<>>, {}))

\* One target i of a sweep: candidates, donor, trial, selection.
Target(run, objective, bounds, i) ==
  Mutation(run, objective, bounds, i, SelectCandidates(run.rand, i, <<>>))

\* The for loop over the targets i of one sweep; individuals replaced earlier
\* in the sweep are seen by the later targets.
RECURSIVE Sweep(_, _, _, _)
Sweep(run, objective, bounds, i) ==
  IF i >= PopulationSize THEN run
  ELSE Sweep(Target(run, objective, bounds, i), objective, bounds, i + 1)

\* The convergence check without Math.abs.
ConvergenceTest_Signed(bestFitness, prevBestFitness) ==
  (prevBestFitness - bestFitness) > 0 /\ (prevBestFitness - bestFitness) < Tolerance

\* Math.abs(bestFitness - prevBestFitness) < tolerance.
ConvergenceTest(bestFitness, prevBestFitness) ==
  (IF bestFitness >= prevBestFitness THEN bestFitness - prevBestFitness
   ELSE prevBestFitness - bestFitness) < Tolerance

NoDEResult == [x |-> <<>>, fitness |-> 0, iterations |-> 0, converged |-> FALSE]

\* A call before its first statement.
NotStarted ==
  [pc |-> "start", rand |-> CreateRandom(0), population |-> <<>>, fitness |-> <<>>,
   bestIdx |-> 0, bestFitness |-> 0, bestIndividual |-> <<>>, iteration |-> 0,
   converged |-> FALSE, prevBestFitness |-> 0, onProgress |-> <<>>,
   donors |-> {}, trials |-> {}, evaluations |-> 0, result |-> NoDEResult]

Targets(dim) == [1..dim -> {0, GridSpan}]

Objectives(dim) ==
  {[kind |-> "flat", target |-> [j \in 1..dim |-> 0]]}
    \cup {[kind |-> "sphere", target |-> t] : t \in Targets(dim)}

\* The bounds of a call, lower[j] <= upper[j]: every parameter in
\* 0..GridSpan, or the first parameter fixed at 3 (lower = upper) and the
\* others in -2..2, a range that holds neither target.
DEBounds(dim) ==
  {[lower |-> [j \in 1..dim |-> 0], upper |-> [j \in 1..dim |-> GridSpan]],
   [lower |-> [j \in 1..dim |-> IF j = 1 THEN 3 ELSE -2],
    upper |-> [j \in 1..dim |-> IF j = 1 THEN 3 ELSE 2]]}

DEInputs ==
  UNION {{[fn |-> "differentialEvolution", objective |-> o, bounds |-> b,
           maxIterations |-> m, seed |-> s, run |-> [r \in Runs |-> NotStarted]] :
            o \in Objectives(d), b \in DEBounds(d), m \in 0..MaxSweeps, s \in Seeds} :
         d \in 1..MaxDim}

\* Lines 490-503: the best individual, and the loop's variables; the
\* objective has been called once for every fitness pushed (line 487).
WithBest(run, init, bestIdx) ==
  [run EXCEPT !.pc = "loop",
              !.rand = init.rand,
              !.population = init.population,
              !.fitness = init.fitness,
              !.bestIdx = bestIdx,
              !.bestFitness = init.fitness[bestIdx + 1],
              !.bestIndividual = init.population[bestIdx + 1],
              !.prevBestFitness = init.fitness[bestIdx + 1],
              !.evaluations = Len(init.fitness)]

Initialized(run, init) == WithBest(run, init, FindBest(init.fitness, 1, 0))

\* Lines 547-558: iteration++, the progress callback, the convergence check.
EndOfSweep(swept) ==
  [swept EXCEPT
     !.iteration = @ + 1,
     !.onProgress = Append(@, <<swept.iteration + 1, swept.bestFitness>>),
     !.converged = ConvergenceTest(swept.bestFitness, swept.prevBestFitness),
     !.prevBestFitness = swept.bestFitness]

\* The initialisation with a random source that differs from call to call.
DEInitialize_SeedPerCall(r) ==
  /\ calc.fn = "differentialEvolution"
  /\ calc.run[r].pc = "start"
  /\ calc' = [calc EXCEPT !.run[r] =
                Initialized(calc.run[r],
                            InitPopulation(CreateRandom(calc.seed + r), calc.objective,
                                           calc.bounds, 0, <<>>, <<>>))]
  /\ UNCHANGED vars

\* Lines 474-503: the random source, the population and the best individual.
DEInitialize(r) ==
  /\ calc.fn = "differentialEvolution"
  /\ calc.run[r].pc = "start"
  /\ calc' = [calc EXCEPT !.run[r] =
                Initialized(calc.run[r],
                            InitPopulation(CreateRandom(calc.seed), calc.objective,
                                           calc.bounds, 0, <<>>, <<>>))]
  /\ UNCHANGED vars

\* Lines 505-559: one pass of the while loop.
DEMainLoop(r) ==
  /\ calc.fn = "differentialEvolution"
  /\ calc.run[r].pc = "loop"
  /\ calc.run[r].iteration < calc.maxIterations
  /\ ~calc.run[r].converged
  /\ calc' = [calc EXCEPT !.run[r] =
                EndOfSweep(Sweep(calc.run[r], calc.objective, calc.bounds, 0))]
  /\ UNCHANGED vars

\* Lines 561-566: the loop's condition fails and the result is returned.
DEReturn(r) ==
  /\ calc.fn = "differentialEvolution"
  /\ calc.run[r].pc = "loop"
  /\ ~(calc.run[r].iteration < calc.maxIterations /\ ~calc.run[r].converged)
  /\ LET run == calc.run[r]
     IN  calc' = [calc EXCEPT !.run[r] =
                    [run EXCEPT !.pc = "returned",
                                !.result = [x |-> run.bestIndividual,
                                            fitness |-> run.bestFitness,
                                            iterations |-> run.iteration,
                                            converged |-> run.converged]]]
  /\ UNCHANGED vars

DEInit == HookInit /\ calc \in DEInputs

DENext == \E r \in Runs : DEInitialize(r) \/ DEMainLoop(r) \/ DEReturn(r)

DESpec == DEInit /\ [][DENext]_allVars

(* ---------------------------------------------------------------------- *)
(* C12: two calls of differentialEvolution with the same seed, bounds,   *)
(* options and deterministic objective have the same trajectory: at the  *)
(* same sweep they have drawn the same numbers and hold the same         *)
(* population, fitness, best individual and on_progress calls; the draws *)
(* and the on_progress calls of the call that is behind are a prefix of  *)
(* the other's; and they return the same x, fitness, iterations and      *)
(* converged.                                                            *)
(* ---------------------------------------------------------------------- *)
IsPrefix(s, t) == Len(s) <= Len(t) /\ SubSeq(t, 1, Len(s)) = s

SamePoint(a, b) == a.pc = b.pc /\ (a.pc = "loop" => a.iteration = b.iteration)

Distance(a, b) == IF a >= b THEN a - b ELSE b - a

SweepRule(r) ==
  calc.run[r].iteration # calc'.run[r].iteration =>
    /\ calc.run[r].iteration < calc.maxIterations
    /\ ~calc.run[r].converged
    /\ calc'.run[r].iteration = calc.run[r].iteration + 1
    /\ Len(calc'.run[r].onProgress) = Len(calc.run[r].onProgress) + 1
    /\ calc'.run[r].converged =
         (Distance(calc'.run[r].bestFitness, calc.run[r].prevBestFitness) < Tolerance)

ReturnRule(r) ==
  calc.run[r].pc = "returned" =>
    /\ calc.run[r].result.iterations = calc.run[r].iteration
    /\ calc.run[r].result.iterations = Len(calc.run[r].onProgress)
    /\ calc.run[r].result.iterations <= calc.maxIterations
    /\ calc.run[r].result.converged = calc.run[r].converged
    /\ calc.run[r].result.converged \/ calc.run[r].result.iterations = calc.maxIterations

\* How far a call has come: 0 before it starts, 1 + iteration in the loop,
\* max_iter + 2 once it has returned.
Position(run) ==
  IF run.pc = "start" THEN 0
  ELSE IF run.pc = "loop" THEN 1 + run.iteration
  ELSE calc.maxIterations + 2

Advances(r) ==
  /\ Position(calc'.run[r]) >= Position(calc.run[r])
  /\ Position(calc'.run[r]) <= calc.maxIterations + 2
  /\ calc'.run[r] # calc.run[r] => Position(calc'.run[r]) > Position(calc.run[r])

C20_StopRule ==
  /\ [][calc.fn = "differentialEvolution" =>
          \A r \in Runs : SweepRule(r) /\ Advances(r)]_allVars
  /\ [](calc.fn = "differentialEvolution" => \A r \in Runs : ReturnRule(r))

\* One call stopped at a sweep that left the best unchanged, after sweeps
\* that moved it, before max_iter.
C20_Witness ==
  /\ calc.fn = "differentialEvolution"
  /\ calc.run[1].pc = "returned"
  /\ calc.run[1].result.converged
  /\ calc.run[1].result.iterations >= 2
  /\ calc.run[1].result.iterations < calc.maxIterations
  /\ calc.run[1].onProgress[calc.run[1].result.iterations][2]
       = calc.run[1].onProgress[calc.run[1].result.iterations - 1][2]

(* ------------------- the crossover of one target ---------------------- *)

\* Numbers random() can return, as numerators over 2^32: 0, 0.5 (both below
\* crossoverRate) and 0.75 (not below it).
DrawValues == {Word(0, 0), Word(32768, 0), Word(49152, 0)}

\* A random source that hands out the numbers of tape.
TapeRandom(tape) == [seed |-> Word(0, 0), tape |-> tape, drawn |-> <<>>]

\* One crossover: a target and a donor that differ in every component, and
\* the numbers the source will return (two per dimension at most).
CrossoverInputs ==
  UNION {{[fn |-> "crossover", pc |-> "call",
           target |-> [j \in 1..d |-> 0], donor |-> [j \in 1..d |-> j],
           rand |-> TapeRandom(tape), trial |-> <<>>, inherited |-> {}] :
            tape \in [1..(2 * d) -> DrawValues]} : d \in 1..MaxDim}

Crossed(call, cross) ==
  [call EXCEPT !.pc = "done", !.rand = cross.rand, !.trial = cross.trial,
               !.inherited = cross.inherited]

\* Lines 528-530: const trial = population[i].map(...).
CrossoverTrial ==
  /\ calc.fn = "crossover"
  /\ calc.pc = "call"
  /\ calc' = Crossed(calc, Crossover(calc.rand, calc.target, calc.donor, 1, <<>>, {}))
  /\ UNCHANGED vars

CrossoverInit == HookInit /\ calc \in CrossoverInputs

CrossoverNext == CrossoverTrial

CrossoverSpec == CrossoverInit /\ [][CrossoverNext]_allVars

(* ---------------------------------------------------------------------- *)
(* C19: in every crossover the trial vector takes at least one component *)
(* from the donor: for each target there is a dimension j the crossover  *)
(* rule gave donor[j], whatever numbers the random source returns.       *)
(* ---------------------------------------------------------------------- *)
C19_InheritsFromDonor ==
  (calc.fn = "crossover" /\ calc.pc = "done") =>
    \E j \in 1..Len(calc.trial) : j \in calc.inherited /\ calc.trial[j] = calc.donor[j]

(* ------------------------------ curveFit ------------------------------ *)

\* maxIterations of levenbergMarquardt (100 in the repository).
MaxLMSteps == 2

\* a + b.
Add(a, b) ==
  IF a.k \in {"nan", "undef"} \/ b.k \in {"nan", "undef"} THEN NaN
  ELSE IF a.k = "inf" /\ b.k = "inf" THEN (IF a.v = b.v THEN a ELSE NaN)
  ELSE IF a.k = "inf" THEN a
  ELSE IF b.k = "inf" THEN b
  ELSE Num(a.v + b.v)

\* a < b: false when either is NaN.
Less(a, b) ==
  /\ a.k \in {"num", "inf"}
  /\ b.k \in {"num", "inf"}
  /\ IF a.k = "inf" THEN a.v < 0 /\ b # NegInf
     ELSE IF b.k = "inf" THEN b.v > 0
     ELSE a.v < b.v

\* Math.min(a, b) and Math.max(a, b): NaN when either is NaN.
MathMin(a, b) ==
  IF a.k \in {"nan", "undef"} \/ b.k \in {"nan", "undef"} THEN NaN
  ELSE IF Less(b, a) THEN b ELSE a

MathMax(a, b) ==
  IF a.k \in {"nan", "undef"} \/ b.k \in {"nan", "undef"} THEN NaN
  ELSE IF Less(a, b) THEN b ELSE a

\* sumSquares of the residuals of a model whose optimum is target and whose
\* prediction uses every parameter (as every model of the repository does):
\* NaN when a parameter is NaN, Infinity when one is infinite.
RECURSIVE SumSquares(_, _)
SumSquares(params, target) ==
  IF params = <<>> THEN Num(0)
  ELSE IF Head(params).k = "nan" THEN NaN
  ELSE IF Head(params).k = "inf" THEN Add(PosInf, SumSquares(Tail(params), Tail(target)))
  ELSE Add(Num((Head(params).v - Head(target)) * (Head(params).v - Head(target))),
           SumSquares(Tail(params), Tail(target)))

\* Line 924 for the same model: the residual y - predicted of every parameter.
Residuals(params, target) ==
  [i \in 1..Len(params) |->
     IF params[i].k = "num" THEN Num(target[i] - params[i].v)
     ELSE IF params[i].k = "inf" THEN [k |-> "inf", v |-> 0 - params[i].v]
     ELSE NaN]

\* 1 / tolerance of levenbergMarquardt (tolerance = 1e-8).
InverseTolerance == 100000000

\* improvement < tolerance * cost, for an accepted step (both are finite).
SmallImprovement(improvement, cost) == improvement <= (cost - 1) \div InverseTolerance

\* What solve can hand back as one component of delta.
Deltas == {Num(-1), Num(1), NaN, PosInf}

\* A number with a part in units of 1e-10 (0 <= t < 10^9): v + t * 1e-10.
Fine(v, t) == [k |-> "num", v |-> v, t |-> t]
FineNaN == [k |-> "nan", v |-> 0, t |-> 0]
FineInf == [k |-> "inf", v |-> 1, t |-> 0]

\* a > b.
Greater(a, b) ==
  /\ a.k \in {"num", "inf"}
  /\ b.k \in {"num", "inf"}
  /\ IF a.k = "inf" THEN b.k # "inf"
     ELSE /\ b.k = "num"
          /\ (a.v > b.v \/ (a.v = b.v /\ a.t > b.t))

\* A diagonal entry of the covariance: sign * root^2, held as its sign and root.
CovEntry(sign, root) == [sign |-> sign, root |-> root]

\* Math.sqrt(Math.abs(row[i])).
SqrtAbs(entry) == entry.root

\* The limit on an error, 1e6.
ErrorLimit == 1000000

\* Math.abs(finalParams[i]) without the 1e-10.
ParamValue_NoFloor(param) ==
  IF param.k = "num" THEN Fine(IF param.v < 0 THEN 0 - param.v ELSE param.v, 0)
  ELSE IF param.k = "inf" THEN FineInf
  ELSE FineNaN

\* Math.abs(finalParams[i]) + 1e-10, and paramValue * 100.
ParamValue(param) ==
  IF param.k = "num" THEN Fine(IF param.v < 0 THEN 0 - param.v ELSE param.v, 1)
  ELSE IF param.k = "inf" THEN FineInf
  ELSE FineNaN

Times100(a) == IF a.k = "num" THEN Fine(100 * a.v, 100 * a.t) ELSE a

\* Lines 961-969: one entry of paramErrors.
ParamError(entry, param) ==
  IF \/ SqrtAbs(entry).k # "num"
     \/ Greater(SqrtAbs(entry), Fine(ErrorLimit, 0))
     \/ Greater(SqrtAbs(entry), Times100(ParamValue(param)))
  THEN FineNaN
  ELSE SqrtAbs(entry)

\* Lines 949-951 without the projection.
Projection_None(bounds, x) == x

\* Lines 949-951: the parameters brought within bounds.
Projection(bounds, x) ==
  [i \in 1..Len(x) |-> MathMax(bounds.lower[i], MathMin(bounds.upper[i], x[i]))]

\* Square roots of the covariance's diagonal the fits can produce: 5e-9,
\* 2e-8, 150, 1e6, 1e6 + 1e-10 and NaN (0 comes with a cost of zero).
CovRoots ==
  {Fine(0, 50), Fine(0, 200), Fine(150, 0), Fine(ErrorLimit, 0),
   Fine(ErrorLimit, 1), FineNaN}

CovEntries == {CovEntry(1, root) : root \in CovRoots} \cup {CovEntry(-1, Fine(150, 0))}

\* The upper bounds of a parameter (the lower bound is 0), the optimum of
\* the model in every parameter, and the initial values of a parameter.
Uppers == {2, 20000}
Optimum == 3
InitialValues == {Num(-1), Num(1)}

CurveFitInputs ==
  UNION {{[fn |-> "curveFit", pc |-> "start", useGlobalOpt |-> g,
           bounds |-> [lower |-> [i \in 1..d |-> Num(0)], upper |-> [i \in 1..d |-> Num(u)]],
           initialParams |-> init, target |-> [i \in 1..d |-> Optimum],
           params |-> <<>>, residuals |-> <<>>, cost |-> Num(0), iteration |-> 0,
           converged |-> FALSE, covariance |-> <<>>,
           result |-> [params |-> <<>>, paramErrors |-> <<>>, residuals |-> <<>>,
                       ssRes |-> Num(0)]] :
            g \in BOOLEAN, u \in Uppers, init \in [1..d -> InitialValues]} : d \in 1..MaxDim}

\* Where differentialEvolution can end: within bounds in every component.
WithinBounds(bounds) ==
  [1..Len(bounds.lower) ->
     {Num(0)} \cup {bounds.upper[i] : i \in 1..Len(bounds.upper)}]

\* Lines 933-943 and 772-779: the starting point of levenbergMarquardt.
StartLM(call, x) ==
  [call EXCEPT !.pc = "lm", !.params = x, !.residuals = Residuals(x, call.target),
               !.cost = SumSquares(x, call.target)]

CurveFitGlobal ==
  /\ calc.fn = "curveFit"
  /\ calc.pc = "start"
  /\ calc.useGlobalOpt
  /\ \E x \in WithinBounds(calc.bounds) : calc' = StartLM(calc, x)
  /\ UNCHANGED vars

CurveFitLocal ==
  /\ calc.fn = "curveFit"
  /\ calc.pc = "start"
  /\ ~calc.useGlobalOpt
  /\ calc' = StartLM(calc, calc.initialParams)
  /\ UNCHANGED vars

\* Lines 819-841: the step is accepted when it lowers the cost.
TryStep(call, newParams, newCost) ==
  IF Less(newCost, call.cost)
  THEN [call EXCEPT !.params = newParams,
                    !.residuals = Residuals(newParams, call.target),
                    !.cost = newCost,
                    !.converged = SmallImprovement(call.cost.v - newCost.v, newCost.v),
                    !.iteration = @ + 1]
  ELSE [call EXCEPT !.iteration = @ + 1]

NewParams(params, delta) == [i \in 1..Len(params) |-> Add(params[i], delta[i])]

LMStep ==
  /\ calc.fn = "curveFit"
  /\ calc.pc = "lm"
  /\ calc.iteration < MaxLMSteps
  /\ ~calc.converged
  /\ \E delta \in [1..Len(calc.params) -> Deltas] :
       calc' = TryStep(calc, NewParams(calc.params, delta),
                       SumSquares(NewParams(calc.params, delta), calc.target))
  /\ UNCHANGED vars

\* Lines 844-880: covariance = inverse(J'J) * cost / max(1, n - p), or the
\* diagonal cost / max(1, n - p) * 0.01: zero when the cost is zero.
LMCovariance ==
  /\ calc.fn = "curveFit"
  /\ calc.pc = "lm"
  /\ ~(calc.iteration < MaxLMSteps /\ ~calc.converged)
  /\ \E covariance \in [1..Len(calc.params) ->
                         IF calc.cost = Num(0) THEN {CovEntry(1, Fine(0, 0))}
                         ELSE CovEntries] :
       calc' = [calc EXCEPT !.pc = "project", !.covariance = covariance]
  /\ UNCHANGED vars

\* Lines 948-979: finalParams, paramErrors and the result. residuals are
\* those of levenbergMarquardt, and ssRes their sum of squares, from which
\* rSquared = 1 - ssRes / ssTot is taken (ssTot depends on the data only).
Returned(call, finalParams) ==
  [call EXCEPT !.pc = "returned",
               !.result = [params |-> finalParams,
                           paramErrors |-> [i \in 1..Len(finalParams) |->
                                              ParamError(call.covariance[i], finalParams[i])],
                           residuals |-> call.residuals,
                           ssRes |-> call.cost]]

CurveFitReturn ==
  /\ calc.fn = "curveFit"
  /\ calc.pc = "project"
  /\ calc' = Returned(calc, Projection(calc.bounds, calc.params))
  /\ UNCHANGED vars

CurveFitInit == HookInit /\ calc \in CurveFitInputs

CurveFitNext ==
  \/ CurveFitGlobal
  \/ CurveFitLocal
  \/ LMStep
  \/ LMCovariance
  \/ CurveFitReturn

CurveFitSpec == CurveFitInit /\ [][CurveFitNext]_allVars

(* ---------------------------------------------------------------------- *)
(* C13: for finite inputs every component of the params curveFit returns *)
(* is within its bounds, lower[i] <= params[i] <= upper[i], wherever     *)
(* Levenberg-Marquardt ended.                                            *)
(* ---------------------------------------------------------------------- *)
C13_ParamsWithinBounds ==
  (calc.fn = "curveFit" /\ calc.pc = "returned") =>
    \A i \in 1..Len(calc.result.params) :
      /\ calc.result.params[i].k = "num"
      /\ calc.bounds.lower[i].v <= calc.result.params[i].v
      /\ calc.result.params[i].v <= calc.bounds.upper[i].v

\* differentialEvolution ended within bounds, Levenberg-Marquardt moved a
\* parameter above its upper bound, and curveFit returned the bound.
C13_Witness ==
  /\ calc.fn = "curveFit"
  /\ calc.pc = "returned"
  /\ calc.useGlobalOpt
  /\ \E i \in 1..Len(calc.params) :
       /\ Less(calc.bounds.upper[i], calc.params[i])
       /\ calc.result.params[i] = calc.bounds.upper[i]

(* ---------------------------------------------------------------------- *)
(* C14: every entry of the param_errors curveFit returns is a finite     *)
(* number that is not negative (zero when the covariance entry is zero)  *)
(* or the not-a-number marker, and it is the marker exactly when         *)
(* sqrt(|cov[i][i]|) is not finite, exceeds 1e6 or exceeds               *)
(* 100 * (|params[i]| + 1e-10).                                          *)
(* ---------------------------------------------------------------------- *)
Magnitude(param) == IF param.v < 0 THEN 0 - param.v ELSE param.v

\* err > 100 * (|param| + 1e-10), in units of 1 and of 1e-10.
ExceedsHundredfold(err, param) ==
  \/ err.v > 100 * Magnitude(param)
  \/ err.v = 100 * Magnitude(param) /\ err.t > 100

MarkerDue(err, param) ==
  \/ err.k # "num"
  \/ err.v > ErrorLimit
  \/ err.v = ErrorLimit /\ err.t > 0
  \/ ExceedsHundredfold(err, param)

MarkerRule(i) ==
  (calc.result.paramErrors[i] = FineNaN)
    <=> MarkerDue(SqrtAbs(calc.covariance[i]), calc.result.params[i])

C14_NonNegativeOrMarker ==
  (calc.fn = "curveFit" /\ calc.pc = "returned") =>
    \A i \in 1..Len(calc.result.paramErrors) :
      /\ \/ calc.result.paramErrors[i] = FineNaN
         \/ /\ calc.result.paramErrors[i].k = "num"
            /\ calc.result.paramErrors[i].v >= 0
            /\ calc.result.paramErrors[i].t >= 0
      /\ MarkerRule(i)

\* C14 as stated: every entry is finite and strictly positive, or the marker.
C14_PositiveOrMarker ==
  (calc.fn = "curveFit" /\ calc.pc = "returned") =>
    \A i \in 1..Len(calc.result.paramErrors) :
      /\ \/ calc.result.paramErrors[i] = FineNaN
         \/ /\ calc.result.paramErrors[i].k = "num"
            /\ Greater(calc.result.paramErrors[i], Fine(0, 0))
      /\ MarkerRule(i)

\* A fit returned the marker for an error of 150 on a parameter of 1 or
\* less, and a positive error unchanged on another parameter.
C14_Witness ==
  /\ calc.fn = "curveFit"
  /\ calc.pc = "returned"
  /\ \E i \in 1..Len(calc.result.paramErrors) :
       /\ calc.result.paramErrors[i] = FineNaN
       /\ SqrtAbs(calc.covariance[i]) = Fine(150, 0)
  /\ \E i \in 1..Len(calc.result.paramErrors) :
       /\ Greater(calc.result.paramErrors[i], Fine(0, 0))
       /\ calc.result.paramErrors[i] = SqrtAbs(calc.covariance[i])

(* ----------------------------- fermiDirac ----------------------------- *)

\* Temperatures are in units of 0.05 K and energies in units of KB * 0.05 K,
\* so that (e - ef) / (KB * temp) is the quotient of two integers.
\* temp < 0.1 is temp < StepBelow.
StepBelow == 2

\* Math.max(-100, Math.min(100, ...)).
ValLimit == 100

\* Math.exp(val) + 1.0 is 1.0 in double precision when val <= -36.737
\* (exp(val) is below half the spacing of the doubles at 1).
AbsorbedBelow == 36737
Thousand == 1000

\* A value of the distribution: exactly 0, exactly 1, or
\* 1 / (exp(num / den) + 1), which is strictly between them.
Zero == [k |-> "zero", num |-> 0, den |-> 1]
One == [k |-> "one", num |-> 0, den |-> 1]
Frac(num, den) == [k |-> "frac", num |-> num, den |-> den]

\* (e - ef) / (KB * temp) brought within -100..100, as a numerator over temp.
Val(e, ef, temp) ==
  IF e - ef > ValLimit * temp THEN ValLimit * temp
  ELSE IF e - ef < 0 - (ValLimit * temp) THEN 0 - (ValLimit * temp)
  ELSE e - ef

\* 1.0 / (Math.exp(val) + 1.0) computed exactly.
Occupation_Exact(num, den) == Frac(num, den)

\* 1.0 / (Math.exp(val) + 1.0) in double precision.
Occupation(num, den) ==
  IF num * Thousand <= (0 - AbsorbedBelow) * den THEN One ELSE Frac(num, den)

\* fermiDirac(energy, temp, ef).
FermiDirac(energy, temp, ef) ==
  IF temp < StepBelow
  THEN [i \in 1..Len(energy) |-> IF energy[i] <= ef THEN One ELSE Zero]
  ELSE [i \in 1..Len(energy) |-> Occupation(Val(energy[i], ef, temp), temp)]

\* a < b for two values of one call (exp is increasing).
ValueLess(a, b) ==
  \/ a.k = "zero" /\ b.k # "zero"
  \/ a.k = "frac" /\ b.k = "one"
  \/ a.k = "frac" /\ b.k = "frac" /\ a.num > b.num

\* 0.05 K, 0.1 K, 1 K and 300 K; the Fermi levels; the energies.
Temperatures == {1, 2, 20, 6000}
FermiLevels == {0, 2}
Energies == {-700000, -240000, -300, -200, -80, -72, 0, 2, 200, 300, 600000, 700000}

FermiInputs ==
  {[fn |-> "fermiDirac", pc |-> "call", energy |-> <<e1, e2>>, temp |-> t, ef |-> ef,
    result |-> <<>>] :
     e1 \in Energies, e2 \in Energies, t \in Temperatures, ef \in FermiLevels}

FermiDiracCall ==
  /\ calc.fn = "fermiDirac"
  /\ calc.pc = "call"
  /\ calc' = [calc EXCEPT !.pc = "returned",
                          !.result = FermiDirac(calc.energy, calc.temp, calc.ef)]
  /\ UNCHANGED vars

FermiInit == HookInit /\ calc \in FermiInputs

FermiNext == FermiDiracCall

FermiSpec == FermiInit /\ [][FermiNext]_allVars

(* ---------------------------------------------------------------------- *)
(* C15: for temp >= 0.1 every value of fermiDirac is above 0 and at most *)
(* 1, and it is exactly 1 when (e - ef) / (KB * temp) <= -36.737 and     *)
(* below 1 otherwise; for 0 < temp < 0.1 it is the step, 1 for e <= ef   *)
(* and 0 above; in both cases the values never increase with e.          *)
(* ---------------------------------------------------------------------- *)
Saturated(e, ef, temp) == (e - ef) * Thousand <= (0 - AbsorbedBelow) * temp

MaxData == 3
MaxKernel == 3

\* The values of the data and of the kernel (finite numbers).
DataValues == {-1, 0, 2}
KernelValues == {0, 1, 2}

\* Math.ceil(kernel.length / 2) in place of Math.floor.
ConvolvePad_Ceil(kernel) == (Len(kernel) + 1) \div 2

\* padSize = Math.floor(kernel.length / 2).
ConvolvePad(kernel) == Len(kernel) \div 2

\* padded[i] for the 0-based index i: data[0] before the data, data[n - 1]
\* after it (no element of padded is read when the data is empty).
Padded(data, padSize, i) ==
  IF i < padSize THEN data[1]
  ELSE IF i < padSize + Len(data) THEN data[(i - padSize) + 1]
  ELSE data[Len(data)]

\* sum += padded[i + k] * kernel[k] for k = 0 .. kernel.length - 1.
RECURSIVE ConvolveSum(_, _, _, _, _)
ConvolveSum(data, kernel, padSize, i, k) ==
  IF k >= Len(kernel) THEN 0
  ELSE (Padded(data, padSize, i + k) * kernel[k + 1])
         + ConvolveSum(data, kernel, padSize, i, k + 1)

\* convolve(data, kernel).
Convolve(data, kernel) ==
  [i \in 1..Len(data) |-> ConvolveSum(data, kernel, ConvolvePad(kernel), i - 1, 0)]

ConvolveInputs ==
  {[fn |-> "convolve", pc |-> "call", data |-> data, kernel |-> kernel, result |-> <<>>] :
     data \in ArraysUpTo(DataValues, MaxData), kernel \in ArraysUpTo(KernelValues, MaxKernel)}

ConvolveCall ==
  /\ calc.fn = "convolve"
  /\ calc.pc = "call"
  /\ calc' = [calc EXCEPT !.pc = "returned", !.result = Convolve(calc.data, calc.kernel)]
  /\ UNCHANGED vars

ConvolveInit == HookInit /\ calc \in ConvolveInputs

ConvolveNext == ConvolveCall

ConvolveSpec == ConvolveInit /\ [][ConvolveNext]_allVars

(* ---------------------------------------------------------------------- *)
(* C16: convolve(x, [1]) returns x unchanged for every non-empty x, and  *)
(* for any kernel the output of convolve is as long as the data.         *)
(* ---------------------------------------------------------------------- *)
C16_IdentityAndLength ==
  (calc.fn = "convolve" /\ calc.pc = "returned") =>
    /\ Len(calc.result) = Len(calc.data)
    /\ (calc.kernel = <<1>> /\ calc.data # <<>>) => calc.result = calc.data

\* convolve(x, [1]) has returned x for an x of several different values.
C16_Witness ==
  /\ calc.fn = "convolve"
  /\ calc.pc = "returned"
  /\ calc.kernel = <<1>>
  /\ Len(calc.data) >= 2
  /\ calc.data[1] # calc.data[2]
  /\ calc.result = calc.data

(* -------------------------------- erf --------------------------------- *)

\* The arguments are the multiples of 1/4 up to MaxQuarter / 4, and their
\* negations (the negation of 0 is -0).
MaxQuarter == 32

\* The unit of a result and of a coefficient is 1e-9; t and Math.exp(-x * x)
\* are kept to 1e-3 (both are exactly 1 at x = 0).
ErfUnit == 1000000000
Permil == 1000

\* a1 .. a5, in units of 1e-9, and p, in units of 1e-6.
ErfA1 == 254829592
ErfA2 == -284496736
ErfA3 == 1421413741
ErfA4 == -1453152027
ErfA5 == 1061405429
ErfP == 327591
Million == 1000000

\* exp(-1/16), to 1e-3.
ExpSixteenth == 939

\* An argument: sign * quarters / 4 (sign = -1 with quarters = 0 is -0).
Arg(sign, quarters) == [sign |-> sign, quarters |-> quarters]
Negated(x) == Arg(0 - x.sign, x.quarters)

\* a * n / 1000, rounded down.
MulPermil(a, n) == ((a \div Permil) * n) + (((a % Permil) * n) \div Permil)

\* t = 1.0 / (1.0 + p * x) for x = quarters / 4.
ErfT(quarters) == ErfUnit \div (Million + ((ErfP * quarters) \div 4))

\* base ^ n, by squaring.
SquarePermil(a) == MulPermil(a, a)

RECURSIVE PowPermil(_, _)
PowPermil(base, n) ==
  IF n = 0 THEN Permil
  ELSE IF n % 2 = 0 THEN SquarePermil(PowPermil(base, n \div 2))
  ELSE MulPermil(SquarePermil(PowPermil(base, n \div 2)), base)

\* Math.exp(-x * x) = exp(-1/16) ^ (quarters * quarters).
ErfExp(quarters) == PowPermil(ExpSixteenth, quarters * quarters)

\* ((((a5 * t + a4) * t + a3) * t + a2) * t + a1) * t * Math.exp(-x * x).
ErfTail(t, e) ==
  MulPermil(
    MulPermil(
      MulPermil(MulPermil(MulPermil(MulPermil(ErfA5, t) + ErfA4, t) + ErfA3, t) + ErfA2, t)
        + ErfA1,
      t),
    e)

\* sign = x < 0 ? -1 : 1, with no special case for x = 0.
ErfSign(x) == IF x.sign < 0 /\ x.quarters > 0 THEN -1 ELSE 1

\* erf(x), in units of 1e-9.
Erf(x) == ErfSign(x) * (ErfUnit - ErfTail(ErfT(x.quarters), ErfExp(x.quarters)))

NotComputed == [done |-> FALSE, value |-> 0]
Computed(value) == [done |-> TRUE, value |-> value]

ErfInputs ==
  {[fn |-> "erf", x |-> Arg(1, q), ofX |-> NotComputed, ofMinusX |-> NotComputed] :
     q \in 0..MaxQuarter}

\* erf(x).
ErfOfX ==
  /\ calc.fn = "erf"
  /\ ~calc.ofX.done
  /\ calc' = [calc EXCEPT !.ofX = Computed(Erf(calc.x))]
  /\ UNCHANGED vars

\* erf(-x).
ErfOfMinusX ==
  /\ calc.fn = "erf"
  /\ ~calc.ofMinusX.done
  /\ calc' = [calc EXCEPT !.ofMinusX = Computed(Erf(Negated(calc.x)))]
  /\ UNCHANGED vars

ErfInit == HookInit /\ calc \in ErfInputs

ErfNext == ErfOfX \/ ErfOfMinusX

ErfSpec == ErfInit /\ [][ErfNext]_allVars

(* ---------------------------------------------------------------------- *)
(* C17: erf(0) = 0 exactly, erf(-x) = -erf(x) for every x, and           *)
(* |erf(x)| <= 1 for every x.                                            *)
(* ---------------------------------------------------------------------- *)
C17_ErfProperties ==
  (calc.fn = "erf" /\ calc.ofX.done /\ calc.ofMinusX.done) =>
    /\ calc.x.quarters = 0 => calc.ofX.value = 0
    /\ calc.ofMinusX.value = 0 - calc.ofX.value
    /\ calc.ofX.value <= ErfUnit /\ calc.ofX.value >= 0 - ErfUnit
    /\ calc.ofMinusX.value <= ErfUnit /\ calc.ofMinusX.value >= 0 - ErfUnit

(* ------------------------------ simulate ------------------------------ *)

\* The points of the display grid, of the extended grid and of the y axis
\* (500, 750 and 200 in simulate), kept in that order of size.
DisplaySteps == 5
ExtendedSteps == 7
YSteps == 3

\* Energies are in meV and y in mm: the display range -0.1..0.1 eV, the
\* extended range -0.15..0.15 eV and the y range -10..10 mm.
DisplayEdge == 100
ExtendedEdge == 150
YEdge == 10

\* Intensities are in units of 1 / Full.
Full == 100

AbsInt(a) == IF a < 0 THEN 0 - a ELSE a

\* The array of the elements f[1], f[2], ... (Array.from, map, new Array).
Array(f) == f \o <<>>

RECURSIVE SumTo(_, _)
SumTo(data, n) == IF n = 0 THEN 0 ELSE data[n] + SumTo(data, n - 1)

\* Math.max(...data.map(Math.abs)) for a non-empty array.
RECURSIVE MaxAbsTo(_, _)
MaxAbsTo(data, n) ==
  IF n = 1 THEN AbsInt(data[1])
  ELSE IF AbsInt(data[n]) > MaxAbsTo(data, n - 1) THEN AbsInt(data[n])
  ELSE MaxAbsTo(data, n - 1)

\* linspace(start, end, num): Array.from({ length: num }, (_, i) => start + i * step).
Linspace(start, end, num) ==
  Array([i \in 1..num |-> start + (((i - 1) * (end - start)) \div (num - 1))])

\* meshgrid(xAxis, yAxis): rows = yAxis.length, cols = xAxis.length.
MeshE(xAxis, yAxis) ==
  Array([i \in 1..Len(yAxis) |-> Array([j \in 1..Len(xAxis) |-> xAxis[j]])])
MeshY(xAxis, yAxis) ==
  Array([i \in 1..Len(yAxis) |-> Array([j \in 1..Len(xAxis) |-> yAxis[i]])])

\* createGrid(eStart, eEnd, eSteps, yStart, yEnd, ySteps).
MakeGrid(eAxis, yAxis) ==
  [eAxis |-> eAxis, yAxis |-> yAxis, E |-> MeshE(eAxis, yAxis), Y |-> MeshY(eAxis, yAxis),
   de |-> eAxis[2] - eAxis[1]]

CreateGrid(eStart, eEnd, eSteps, yStart, yEnd, ySteps) ==
  MakeGrid(Linspace(eStart, eEnd, eSteps), Linspace(yStart, yEnd, ySteps))

\* The bell exp(-x * x / (2 * sigma * sigma)) of skewGaussian,
\* ellipticalGaussian2D and gaussianKernel, kept to two levels; a sigma
\* that is no finite number leaves the lower level.
Bell(x, sigma) == IF sigma.k = "num" /\ AbsInt(x) <= sigma.v THEN 2 ELSE 1

\* skewGaussian(x, sigma, gamma): x.map(...).
SkewGaussian(x, sigma) == Array([i \in 1..Len(x) |-> Bell(x[i], sigma)])

\* The rows of result[i][j] /= sum.
Normalized2D(result, sum) ==
  Array([i \in 1..Len(result) |->
           Array([j \in 1..Len(result[i]) |->
                    IF sum > 0 THEN (result[i][j] * Full) \div sum ELSE result[i][j]])])

\* ellipticalGaussian2D(E, Y, sigmaX, sigmaY, ...): rows = E.length,
\* cols = E[0].length, result[i][j] = distX * distY.
Elliptical(E, Y, sigmaX, sigmaY) ==
  Array([i \in 1..Len(E) |->
           Array([j \in 1..Len(E[1]) |-> Bell(E[i][j], sigmaX) * Bell(Y[i][j], sigmaY)])])

RowSums(result) == Array([i \in 1..Len(result) |-> SumTo(result[i], Len(result[i]))])

EllipticalGaussian2D(E, Y, sigmaX, sigmaY) ==
  Normalized2D(Elliptical(E, Y, sigmaX, sigmaY),
               SumTo(RowSums(Elliptical(E, Y, sigmaX, sigmaY)), Len(E)))

\* interp: the binary search while (hi - lo > 1) for the interval of x; lo is
\* the 1-based index of the left end.
RECURSIVE InterpSearch(_, _, _, _)
InterpSearch(xOld, x, lo, hi) ==
  IF hi - lo <= 1 THEN lo
  ELSE IF xOld[(lo + hi) \div 2] <= x THEN InterpSearch(xOld, x, (lo + hi) \div 2, hi)
  ELSE InterpSearch(xOld, x, lo, (lo + hi) \div 2)

\* yOld[lo] + t * (yOld[hi] - yOld[lo]) with t = (x - xOld[lo]) / (xOld[hi] - xOld[lo]).
InterpBetween(xOld, yOld, x, lo) ==
  yOld[lo] + (((x - xOld[lo]) * (yOld[lo + 1] - yOld[lo])) \div (xOld[lo + 1] - xOld[lo]))

InterpAt(x, xOld, yOld, left, right) ==
  IF x <= xOld[1] THEN left
  ELSE IF x >= xOld[Len(xOld)] THEN right
  ELSE InterpBetween(xOld, yOld, x, InterpSearch(xOld, x, 1, Len(xOld)))

\* interp(xNew, xOld, yOld, leftVal, rightVal): xNew.map(...).
Interp(xNew, xOld, yOld, left, right) ==
  Array([i \in 1..Len(xNew) |-> InterpAt(xNew[i], xOld, yOld, left, right)])

\* interp(xNew, xOld, yOld): leftVal ?? yOld[0], rightVal ?? yOld[yOld.length - 1].
InterpDefault(xNew, xOld, yOld) == Interp(xNew, xOld, yOld, yOld[1], yOld[Len(yOld)])

\* gaussianKernel: width = Math.ceil(5 * sigma / de) for a finite sigma > 0.
GaussianWidth(sigma, de) == ((5 * sigma.v) + (de - 1)) \div de

\* gaussianKernel: the values pushed for i = -width .. width.
KernelBells(sigma, de, width) ==
  Array([n \in 1..((2 * width) + 1) |-> Bell((n - 1 - width) * de, sigma)])

\* kernel.map(v => v / sum).
KernelNormalized(kernel) ==
  Array([n \in 1..Len(kernel) |-> (kernel[n] * Full) \div SumTo(kernel, Len(kernel))])

\* gaussianKernel(sigma, de), called by projectTo1D with sigma > 0 only.
GaussianKernel(sigma, de) ==
  IF GaussianWidth(sigma, de) <= 0 THEN <<Full>>
  ELSE KernelNormalized(KernelBells(sigma, de, GaussianWidth(sigma, de)))

\* gaussianKernel: for (i = -width; i <= width; i++) never ends when width is
\* Infinity; projectTo1D builds a kernel only if (sigma > 0).
KernelBuilt(sigma) == sigma.k = "inf" => sigma.v < 0

\* if (sigma > 0) spec1D = convolve(spec1D, gaussianKernel(sigma, grid.de)).
PerFull(data) == Array([j \in 1..Len(data) |-> data[j] \div Full])

Smoothed(spec1D, sigma, de) ==
  IF sigma.k = "num" /\ sigma.v > 0
  THEN PerFull(Array(Convolve(spec1D, GaussianKernel(sigma, de))))
  ELSE spec1D

\* generate2DEmission: shiftedEnergy = grid.eAxis.map(e => e - shift).
ShiftedEnergy(eAxis, shift) == Array([j \in 1..Len(eAxis) |-> eAxis[j] - shift])

\* generate2DEmission: interp(shiftedEnergy, grid.eAxis, trueSpectrum, trueSpectrum[0], 0).
ShiftedSpec(grid, trueSpectrum, shift) ==
  Interp(ShiftedEnergy(grid.eAxis, shift), grid.eAxis, trueSpectrum, trueSpectrum[1], 0)

\* generate2DEmission(grid, trueSpectrum, sigmaY, gammaY, alpha):
\* rows = grid.yAxis.length, cols = grid.eAxis.length,
\* img[i][j] = shiftedSpec[j] * yDistribution[i].
EmissionRow(shiftedSpec, weight, cols) == Array([j \in 1..cols |-> shiftedSpec[j] * weight])

Generate2DEmission(grid, trueSpectrum, sigmaY, alpha) ==
  Array([i \in 1..Len(grid.yAxis) |->
           EmissionRow(ShiftedSpec(grid, trueSpectrum, alpha * grid.yAxis[i]),
                       SkewGaussian(grid.yAxis, sigmaY)[i], Len(grid.eAxis))])

\* The spot profile taken on the extended grid.
Get2DSpotProfile_Extended(grid, sigmaX, sigmaY) ==
  EllipticalGaussian2D(MeshE(Linspace(0 - ExtendedEdge, ExtendedEdge, ExtendedSteps), grid.yAxis),
                       MeshY(Linspace(0 - ExtendedEdge, ExtendedEdge, ExtendedSteps), grid.yAxis),
                       sigmaX, sigmaY)

\* get2DSpotProfile(grid, sigmaX, sigmaY, gammaX, gammaY).
Get2DSpotProfile(grid, sigmaX, sigmaY) == EllipticalGaussian2D(grid.E, grid.Y, sigmaX, sigmaY)

\* bilinearInterp: the weighted mean of the four neighbours; (y0, yr) and
\* (x0, xr) are the floor and the remainder of yi and xi over yd and xd.
BilinearMean(data, y0, y1, yr, yd, x0, x1, xr, xd) ==
  ((data[y0 + 1][x0 + 1] * (xd - xr) * (yd - yr))
     + (data[y0 + 1][x1 + 1] * xr * (yd - yr))
     + (data[y1 + 1][x0 + 1] * (xd - xr) * yr)
     + (data[y1 + 1][x1 + 1] * xr * yr)) \div (xd * yd)

BilinearInside(yAxis, xAxis, data, yn, yd, xn, xd) ==
  BilinearMean(data, yn \div yd, Min((yn \div yd) + 1, Len(yAxis) - 1), yn % yd, yd,
               xn \div xd, Min((xn \div xd) + 1, Len(xAxis) - 1), xn % xd, xd)

\* bilinearInterp(yAxis, xAxis, data, y, x).
BilinearInterp(yAxis, xAxis, data, y, x) ==
  IF y < yAxis[1] \/ y > yAxis[Len(yAxis)] \/ x < xAxis[1] \/ x > xAxis[Len(xAxis)] THEN 0
  ELSE BilinearInside(yAxis, xAxis, data,
                      (y - yAxis[1]) * (Len(yAxis) - 1), yAxis[Len(yAxis)] - yAxis[1],
                      (x - xAxis[1]) * (Len(xAxis) - 1), xAxis[Len(xAxis)] - xAxis[1])

\* projectTo1D: eSrcCurved = eSrc - kappa * (yNorm * yNorm) with
\* eSrc = e * cosTheta + y * sinTheta; tilt is y * sinTheta in meV per mm.
CurvedEnergy(e, y, yMax, kappa, tilt) == (e + (y * tilt)) - ((kappa * y * y) \div (yMax * yMax))

\* projectTo1D: distortedImg, rows x cols (ySrc = -e * sinTheta + y * cosTheta
\* is y to within 1e-3 mm for the tilts of the simulator).
DistortedImg(grid, image2D, kappa, tilt, yMax) ==
  Array([i \in 1..Len(grid.yAxis) |->
           Array([j \in 1..Len(grid.eAxis) |->
                    BilinearInterp(grid.yAxis, grid.eAxis, image2D, grid.Y[i][j],
                                   CurvedEnergy(grid.E[i][j], grid.Y[i][j], yMax, kappa, tilt))])])

\* projectTo1D: spec1D[j] += distortedImg[i][j] over the rows.
RECURSIVE ColumnSum(_, _, _)
ColumnSum(img, j, rows) == IF rows = 0 THEN 0 ELSE img[rows][j] + ColumnSum(img, j, rows - 1)

SumAlongY(img, rows, cols) == Array([j \in 1..cols |-> ColumnSum(img, j, rows)])

\* projectTo1D(grid, image2D, kappa, theta, sigmaSource, sigmaDetector).
ProjectTo1D(grid, image2D, kappa, tilt, sigmaSource, sigmaDetector) ==
  Smoothed(Smoothed(SumAlongY(DistortedImg(grid, image2D, kappa, tilt,
                                           MaxAbsTo(grid.yAxis, Len(grid.yAxis))),
                              Len(grid.yAxis), Len(grid.eAxis)),
                    sigmaSource, grid.de),
           sigmaDetector, grid.de)

\* addNoise(spectrum, poissonLevel, gaussianLevel): spectrum.map(...), each
\* value moved by the numbers drawn for it and Math.max(0, noisy).
AddNoise(spectrum, drawn) ==
  Array([i \in 1..Len(spectrum) |->
           IF spectrum[i] + drawn[i] < 0 THEN 0 ELSE spectrum[i] + drawn[i]])

\* gradient(data, dx): new Array(n), central differences inside and one-sided
\* differences at result[0] and result[n - 1].
Gradient(data, dx) ==
  Array([i \in 1..Len(data) |->
           IF i = 1 THEN ((data[2] - data[1]) * Full) \div dx
           ELSE IF i = Len(data) THEN ((data[i] - data[i - 1]) * Full) \div dx
           ELSE ((data[i + 1] - data[i - 1]) * Full) \div (2 * dx)])

\* Math.max(...data) for a non-empty array.
RECURSIVE MaxTo(_, _)
MaxTo(data, n) ==
  IF n = 1 THEN data[1]
  ELSE IF data[n] > MaxTo(data, n - 1) THEN data[n]
  ELSE MaxTo(data, n - 1)

\* 1 meV in the energy unit of FermiDirac (KB * 0.05 K = 4.31e-3 meV).
PerMilliVolt == 232

\* The values of fermiDirac kept to five levels.
Intensity(value) ==
  IF value.k = "zero" THEN 0
  ELSE IF value.k = "one" THEN Full
  ELSE IF value.num < 0 THEN (3 * Full) \div 4
  ELSE IF value.num = 0 THEN Full \div 2
  ELSE Full \div 4

Intensities(values) == Array([j \in 1..Len(values) |-> Intensity(values[j])])

\* fermiDirac(eAxis, temp) with the default ef = 0.
IdealFD(eAxis, temp) ==
  Intensities(FermiDirac(Array([j \in 1..Len(eAxis) |-> eAxis[j] * PerMilliVolt]), temp, 0))

\* simulate, steps 1, 2, 4 and 5: the spectrum of a distribution on the
\* extended grid brought to the display grid.
OnDisplayGrid(p, grid, gridExtended, fdExtended) ==
  InterpDefault(grid.eAxis, gridExtended.eAxis,
                ProjectTo1D(gridExtended,
                            Generate2DEmission(gridExtended, fdExtended, p.sigmaY, p.alpha),
                            p.kappa, p.tilt, p.sigmaX, p.sigmaRes))

\* spectrumRaw.map(v => v / (maxVal + 1e-12)).
SpectrumClean(spectrumRaw, maxVal) ==
  Array([j \in 1..Len(spectrumRaw) |-> IF maxVal > 0 THEN (spectrumRaw[j] * Full) \div maxVal ELSE 0])

\* irfRaw.map(v => -v / (irfMax + 1e-12)).
Irf(irfRaw, irfMax) ==
  Array([j \in 1..Len(irfRaw) |-> IF irfMax > 0 THEN ((0 - irfRaw[j]) * Full) \div irfMax ELSE 0])

\* simulate: the returned object.
SimulationResult(p, grid, spectrumRaw, stepSpectrum, drawn) ==
  [energy |-> Array([j \in 1..Len(grid.eAxis) |-> grid.eAxis[j] * Thousand]),
   spectrum |-> AddNoise(SpectrumClean(spectrumRaw, MaxTo(spectrumRaw, Len(spectrumRaw))), drawn),
   spectrumClean |-> SpectrumClean(spectrumRaw, MaxTo(spectrumRaw, Len(spectrumRaw))),
   idealFD |-> IdealFD(grid.eAxis, p.temp),
   irf |-> Irf(Gradient(stepSpectrum, grid.de),
               MaxAbsTo(Gradient(stepSpectrum, grid.de), Len(stepSpectrum))),
   image2D |-> Generate2DEmission(grid, IdealFD(grid.eAxis, p.temp), p.sigmaY, p.alpha),
   spotProfile |-> Get2DSpotProfile(grid, p.sigmaX, p.sigmaY),
   yAxis |-> grid.yAxis]

\* simulate(params) on the two grids; stepFD is fermiDirac at 0.01 K, which is
\* below 0.1 K.
SimulateOn(p, grid, gridExtended, drawn) ==
  SimulationResult(p, grid,
                   OnDisplayGrid(p, grid, gridExtended, IdealFD(gridExtended.eAxis, p.temp)),
                   OnDisplayGrid(p, grid, gridExtended, IdealFD(gridExtended.eAxis, 0)),
                   drawn)

\* simulate(params): gridExtended = createGrid(-0.15, 0.15, 750, -10, 10, 200),
\* grid = createGrid(-0.1, 0.1, 500, -10, 10, 200).
Simulate(p, drawn) ==
  SimulateOn(p, CreateGrid(0 - DisplayEdge, DisplayEdge, DisplaySteps, 0 - YEdge, YEdge, YSteps),
             CreateGrid(0 - ExtendedEdge, ExtendedEdge, ExtendedSteps, 0 - YEdge, YEdge, YSteps),
             drawn)

\* sigmaX and sigmaRes in meV (0, 10, 30, NaN, Infinity); sigmaY in mm; alpha in
\* meV per mm; kappa in meV; the temperatures 0.05 K and 300 K; the noise
\* levels.
Sigmas == {Num(0), Num(10), Num(30), NaN, PosInf}
Alphas == {0, 2}
Kappas == {0, 10}
SimTemperatures == {1, 6000}
NoiseLevels == {<<0, 0>>, <<2, 0>>, <<2, 1>>}

SimulatorParams ==
  [sigmaX : Sigmas, sigmaRes : Sigmas, sigmaY : {Num(5)}, alpha : Alphas, kappa : Kappas,
   tilt : {1}, temp : SimTemperatures, noise : NoiseLevels]

SimulateInputs ==
  {[fn |-> "simulate", pc |-> "call", params |-> p, result |-> <<>>] : p \in SimulatorParams}

\* addNoise: the net of the numbers drawn from Math.random for each point
\* (none when poissonLevel <= 1e-5 and gaussianLevel <= 0).
NoiseDrawn(p) ==
  IF p.noise = <<0, 0>> THEN [1..DisplaySteps -> {0}] ELSE [1..DisplaySteps -> {-1, 1}]

\* simulate(params) returns.
SimulateReturn ==
  /\ calc.fn = "simulate"
  /\ calc.pc = "call"
  /\ KernelBuilt(calc.params.sigmaX)
  /\ KernelBuilt(calc.params.sigmaRes)
  /\ \E drawn \in NoiseDrawn(calc.params) :
       calc' = [calc EXCEPT !.pc = "returned", !.result = Simulate(calc.params, drawn)]
  /\ UNCHANGED vars

\* simulate(params) stays in the loop of gaussianKernel.
SimulateLoops ==
  /\ calc.fn = "simulate"
  /\ calc.pc = "call"
  /\ ~(KernelBuilt(calc.params.sigmaX) /\ KernelBuilt(calc.params.sigmaRes))
  /\ calc' = [calc EXCEPT !.pc = "looping"]
  /\ UNCHANGED vars

SimulateInit == HookInit /\ calc \in SimulateInputs

SimulateNext == SimulateReturn \/ SimulateLoops

SimulateSpec == SimulateInit /\ [][SimulateNext]_allVars

\* rows arrays of cols elements each.
HasShape(image, rows, cols) ==
  /\ Len(image) = rows
  /\ \A i \in 1..Len(image) : Len(image[i]) = cols

(* ---------------------------------------------------------------------- *)
(* C18: for every SimulatorParams the result of simulate has energy,      *)
(* spectrum, spectrumClean, idealFD and irf as long as the display grid   *)
(* (e_steps) and image2D and spotProfile of shape [y_steps][e_steps],     *)
(* whatever the size of the extended grid.                                *)
(* ---------------------------------------------------------------------- *)
C18_OutputLengths ==
  (calc.fn = "simulate" /\ calc.pc = "returned") =>
    /\ Len(calc.result.energy) = DisplaySteps
    /\ Len(calc.result.spectrum) = DisplaySteps
    /\ Len(calc.result.spectrumClean) = DisplaySteps
    /\ Len(calc.result.idealFD) = DisplaySteps
    /\ Len(calc.result.irf) = DisplaySteps
    /\ HasShape(calc.result.image2D, YSteps, DisplaySteps)
    /\ HasShape(calc.result.spotProfile, YSteps, DisplaySteps)

\* simulate has returned a noisy spectrum that went through both
\* convolutions on the extended grid, which is larger than the display grid.
C18_Witness ==
  /\ calc.fn = "simulate"
  /\ calc.pc = "returned"
  /\ calc.params.sigmaX = Num(30)
  /\ calc.params.sigmaRes = Num(10)
  /\ calc.params.noise = <<2, 1>>
  /\ ExtendedSteps > DisplaySteps
  /\ calc.result.spectrum # calc.result.spectrumClean
  /\ \E j \in 1..Len(calc.result.irf) : calc.result.irf[j] # 0

\* Every component of x lies within [lower[j], upper[j]].
InBounds(x, bounds) ==
  /\ Len(x) = Len(bounds.lower)
  /\ \A j \in 1..Len(x) : bounds.lower[j] <= x[j] /\ x[j] <= bounds.upper[j]

(* ---------------------------------------------------------------------- *)
(* C21: at every point of a run of differentialEvolution with             *)
(* lower[j] <= upper[j], every component of every member of the           *)
(* population, of every donor and trial vector and of the returned best   *)
(* vector x lies within [lower[j], upper[j]].                             *)
(* ---------------------------------------------------------------------- *)
C21_VectorsWithinBounds ==
  calc.fn = "differentialEvolution" =>
    \A r \in Runs :
      /\ \A i \in 1..Len(calc.run[r].population) :
           InBounds(calc.run[r].population[i], calc.bounds)
      /\ \A donor \in calc.run[r].donors : InBounds(donor, calc.bounds)
      /\ \A trial \in calc.run[r].trials : InBounds(trial, calc.bounds)
      /\ calc.run[r].pc # "start" => InBounds(calc.run[r].bestIndividual, calc.bounds)
      /\ calc.run[r].pc = "returned" => InBounds(calc.run[r].result.x, calc.bounds)

\* A run has returned one of its trial vectors after sweeps whose donors
\* reached both ends of a parameter's range, with one parameter fixed by
\* lower = upper.
C21_Witness ==
  /\ calc.fn = "differentialEvolution"
  /\ calc.run[1].pc = "returned"
  /\ Len(calc.bounds.lower) = 2
  /\ calc.bounds.lower[1] = calc.bounds.upper[1]
  /\ \E donor \in calc.run[1].donors : donor[2] = calc.bounds.lower[2]
  /\ \E donor \in calc.run[1].donors : donor[2] = calc.bounds.upper[2]
  /\ \E trial \in calc.run[1].trials : trial = calc.run[1].result.x

\* The fitness passed to on_progress never increases from one call to the
\* next.
ProgressNeverIncreases(run) ==
  \A k \in 1..(Len(run.onProgress) - 1) : run.onProgress[k + 1][2] <= run.onProgress[k][2]

\* The best fitness is the least fitness of the population and the objective
\* value of the stored best vector; every stored fitness is the objective
\* value of its individual.
BestIsMinimum(run) ==
  /\ \A i \in 1..Len(run.population) :
       /\ run.fitness[i] = Objective(calc.objective, run.population[i])
       /\ run.bestFitness <= run.fitness[i]
  /\ \E i \in 1..Len(run.population) : run.bestFitness = run.fitness[i]
  /\ run.bestFitness = Objective(calc.objective, run.bestIndividual)
  /\ Len(run.onProgress) > 0 => run.onProgress[Len(run.onProgress)][2] = run.bestFitness

\* A sweep replaces an individual only by one of its trial vectors of
\* strictly smaller fitness, and leaves the best fitness no larger.
ReplacementRule(r) ==
  (calc.run[r].pc = "loop" /\ calc'.run[r].pc = "loop") =>
    /\ \A i \in 1..Len(calc.run[r].population) :
         \/ /\ calc'.run[r].population[i] = calc.run[r].population[i]
            /\ calc'.run[r].fitness[i] = calc.run[r].fitness[i]
         \/ /\ calc'.run[r].fitness[i] < calc.run[r].fitness[i]
            /\ calc'.run[r].population[i] \in calc'.run[r].trials
    /\ calc'.run[r].bestFitness <= calc.run[r].bestFitness

(* ---------------------------------------------------------------------- *)
(* C28: the best fitness of a run of differentialEvolution never          *)
(* increases: the fitness passed to successive on_progress calls is       *)
(* non-increasing, an individual is replaced only by a trial of strictly  *)
(* smaller fitness, and after every sweep the best fitness is the minimum *)
(* fitness over the population and the objective value of the stored      *)
(* best vector.                                                           *)
(* ---------------------------------------------------------------------- *)
C28_BestNeverIncreases ==
  /\ [][calc.fn = "differentialEvolution" => \A r \in Runs : ReplacementRule(r)]_allVars
  /\ [](calc.fn = "differentialEvolution" =>
          \A r \in Runs :
            calc.run[r].pc # "start" =>
              ProgressNeverIncreases(calc.run[r]) /\ BestIsMinimum(calc.run[r]))

\* A run reported a best fitness that fell from one sweep to the next and
\* then stayed, while some individual kept a larger fitness.
C28_Witness ==
  /\ calc.fn = "differentialEvolution"
  /\ calc.run[1].pc = "returned"
  /\ Len(calc.run[1].onProgress) >= 3
  /\ calc.run[1].onProgress[2][2] < calc.run[1].onProgress[1][2]
  /\ calc.run[1].onProgress[3][2] = calc.run[1].onProgress[2][2]
  /\ \E i \in 1..Len(calc.run[1].population) : calc.run[1].fitness[i] > calc.run[1].bestFitness

(* ----------------- estimateIRFParameters in its handler ---------------- *)

\* handleEstimateIRF serving one request: estimateIRFParameters runs
\* differentialEvolution (populationSize 15, seed 42) on its objective, which
\* adds one to evaluationCount and runs simulate once on every call; the
\* callback posts the progress messages.  throws: the objective throws on
\* its first call (an observedSpectrum that cannot be spread).
EstimateInputs ==
  UNION {{[fn |-> "estimateIRFParameters", objective |-> o, bounds |-> b,
           maxIterations |-> m, throws |-> t, run |-> NotStarted,
           simulations |-> 0, posted |-> <<>>, result |-> <<>>] :
            o \in Objectives(d), b \in DEBounds(d), m \in 0..MaxSweeps, t \in BOOLEAN} :
         d \in 1..MaxDim}

\* The default seed of estimateIRFParameters' call of differentialEvolution.
EstimateSeed == 42

\* The callback of handleEstimateIRF for the sweep that has just ended.
ProgressPosted(posted, swept, maxIterations) ==
  Append(posted, ProgressMessage(1, 1, swept.iteration,
                                 ProgressPercent(swept.iteration, maxIterations)))

\* success taken from the number of sweeps: true when fewer than maxIterations ran.
EstimateSuccess_StoppedEarly(deResult) == deResult.iterations < calc.maxIterations

\* success: deResult.converged.
EstimateSuccess(deResult) == deResult.converged

\* message: deResult.converged ? 'Optimization converged' : 'Maximum iterations reached'.
EstimateMessage(deResult) ==
  IF deResult.converged THEN "Optimization converged" ELSE "Maximum iterations reached"

\* evaluations counting the final simulate(optimalParams) as well.
EstimateEvaluations_WithFinal(run) == run.evaluations + 1

\* evaluations: evaluationCount, which only the objective increments.
EstimateEvaluations(run) == run.evaluations

\* The object estimateIRFParameters returns; fitted is the simulation of
\* the best vector, from which fittedSpectrum and estimatedIRF are taken.
IRFEstimationResult(run, deResult) ==
  [success |-> EstimateSuccess(deResult),
   parameters |-> deResult.x,
   fitted |-> [simulated |-> TRUE, params |-> deResult.x],
   finalLoss |-> deResult.fitness,
   iterations |-> deResult.iterations,
   evaluations |-> EstimateEvaluations(run),
   message |-> EstimateMessage(deResult)]

\* part_000:561-566: the object differentialEvolution returns.
DEResultOf(run) ==
  [x |-> run.bestIndividual, fitness |-> run.bestFitness, iterations |-> run.iteration,
   converged |-> run.converged]

\* estimateIRFParameters up to the loop of differentialEvolution: the
\* population is drawn and evaluated.
EstimateStart ==
  /\ calc.fn = "estimateIRFParameters"
  /\ calc.run.pc = "start"
  /\ ~calc.throws
  /\ calc' = [calc EXCEPT
                !.run = Initialized(calc.run,
                                    InitPopulation(CreateRandom(EstimateSeed), calc.objective,
                                                   calc.bounds, 0, <<>>, <<>>)),
                !.simulations = PopulationSize]
  /\ UNCHANGED vars

\* The objective throws on its first call: the catch of handleEstimateIRF
\* posts the error.
EstimateThrows ==
  /\ calc.fn = "estimateIRFParameters"
  /\ calc.run.pc = "start"
  /\ calc.throws
  /\ calc' = [calc EXCEPT !.run.pc = "thrown",
                          !.run.evaluations = 1,
                          !.simulations = 1,
                          !.posted = <<ErrorMessage(1, 1, ThrownText)>>]
  /\ UNCHANGED vars

SweptEstimate(call, swept) ==
  [call EXCEPT !.run = swept,
               !.simulations = @ + (swept.evaluations - call.run.evaluations),
               !.posted = ProgressPosted(@, swept, call.maxIterations)]

\* One pass of the loop of differentialEvolution, with its progress callback.
EstimateSweep ==
  /\ calc.fn = "estimateIRFParameters"
  /\ calc.run.pc = "loop"
  /\ calc.run.iteration < calc.maxIterations
  /\ ~calc.run.converged
  /\ calc' = SweptEstimate(calc, EndOfSweep(Sweep(calc.run, calc.objective, calc.bounds, 0)))
  /\ UNCHANGED vars

ReturnedEstimate(call, result) ==
  [call EXCEPT !.run.pc = "returned",
               !.run.result = DEResultOf(call.run),
               !.simulations = @ + 1,
               !.result = result,
               !.posted = Append(@, ResultMessage(1, 1, result))]

\* differentialEvolution returns; estimateIRFParameters simulates the best
\* vector and returns, and handleEstimateIRF posts the result.
EstimateFinish ==
  /\ calc.fn = "estimateIRFParameters"
  /\ calc.run.pc = "loop"
  /\ ~(calc.run.iteration < calc.maxIterations /\ ~calc.run.converged)
  /\ calc' = ReturnedEstimate(calc, IRFEstimationResult(calc.run, DEResultOf(calc.run)))
  /\ UNCHANGED vars

EstimateInit == HookInit /\ calc \in EstimateInputs

EstimateNext == EstimateStart \/ EstimateThrows \/ EstimateSweep \/ EstimateFinish

EstimateSpec == EstimateInit /\ [][EstimateNext]_allVars

(* ---------------------------------------------------------------------- *)
(* C29: estimateIRFParameters reports evaluations =                       *)
(* populationSize * (1 + iterations): the objective (one forward          *)
(* simulation) is evaluated once per individual at initialization and     *)
(* once per individual per sweep, and the final simulation of the best    *)
(* vector is not counted.                                                 *)
(* ---------------------------------------------------------------------- *)
C29_EvaluationCount ==
  calc.fn = "estimateIRFParameters" =>
    /\ calc.run.pc = "loop" =>
         /\ calc.run.evaluations = PopulationSize * (1 + calc.run.iteration)
         /\ calc.simulations = calc.run.evaluations
    /\ calc.run.pc = "returned" =>
         /\ calc.result.evaluations = PopulationSize * (1 + calc.result.iterations)
         /\ calc.simulations = calc.result.evaluations + 1

\* An estimation has returned after two sweeps or more.
C29_Witness ==
  /\ calc.fn = "estimateIRFParameters"
  /\ calc.run.pc = "returned"
  /\ calc.result.iterations >= 2
  /\ calc.result.evaluations >= 3 * PopulationSize

\* The best fitness of the initial population of the call.
InitialBest(call) ==
  Initialized(NotStarted,
              InitPopulation(CreateRandom(EstimateSeed), call.objective, call.bounds,
                             0, <<>>, <<>>)).bestFitness

\* The best fitness before sweep k of a run.
BestBefore(call, k) == IF k = 1 THEN InitialBest(call) ELSE call.run.onProgress[k - 1][2]

\* The run ended with a sweep that met the tolerance test
\* |best - prev_best| < tol.
StoppedByTolerance(call) ==
  /\ Len(call.run.onProgress) >= 1
  /\ Distance(call.run.onProgress[Len(call.run.onProgress)][2],
              BestBefore(call, Len(call.run.onProgress))) < Tolerance

(* ---------------------------------------------------------------------- *)
(* C30: estimateIRFParameters returns success = true with message         *)
(* 'Optimization converged' exactly when differentialEvolution stopped by *)
(* its tolerance test; when it used all max_iterations sweeps without     *)
(* meeting the test it returns success = false with message 'Maximum      *)
(* iterations reached', still with the best parameters, the fitted        *)
(* spectrum and the estimated IRF, and the worker posts this as a         *)
(* 'result' message, not an 'error'.                                      *)
(* ---------------------------------------------------------------------- *)
C30_SuccessAndMessage ==
  (calc.fn = "estimateIRFParameters" /\ calc.run.pc = "returned") =>
    /\ calc.result.success = StoppedByTolerance(calc)
    /\ calc.result.success => calc.result.message = "Optimization converged"
    /\ ~calc.result.success =>
         /\ calc.result.message = "Maximum iterations reached"
         /\ calc.result.iterations = calc.maxIterations
    /\ calc.result.parameters = calc.run.bestIndividual
    /\ InBounds(calc.result.parameters, calc.bounds)
    /\ calc.result.fitted = [simulated |-> TRUE, params |-> calc.result.parameters]
    /\ calc.result.finalLoss = Objective(calc.objective, calc.result.parameters)
    /\ calc.posted[Len(calc.posted)] = ResultMessage(1, 1, calc.result)
    /\ \A k \in 1..Len(calc.posted) : calc.posted[k].type # "error"

\* An estimation used all its sweeps, each of which moved the best by the
\* tolerance or more, and its result is posted with success = false.
C30_Witness ==
  /\ calc.fn = "estimateIRFParameters"
  /\ calc.run.pc = "returned"
  /\ calc.maxIterations >= 2
  /\ calc.result.iterations = calc.maxIterations
  /\ ~calc.result.success
  /\ calc.result.message = "Maximum iterations reached"
  /\ calc.posted[Len(calc.posted)].type = "result"
  /\ Len(calc.posted) = calc.maxIterations + 1

(* -------------------------- levenbergMarquardt ------------------------ *)

\* Numbers are decimal floating-point values m * 10^e kept to Digits
\* significant digits (doubles keep about sixteen): Lowest <= |m| < Radix, or
\* m = 0 and e = 0.
Digits == 4
Radix == 10 ^ Digits
Lowest == Radix \div 10

Magn(m) == IF m < 0 THEN 0 - m ELSE m

\* m / 10 rounded towards zero.
TenthOf(m) == IF m < 0 THEN 0 - ((0 - m) \div 10) ELSE m \div 10

RECURSIVE Norm(_, _)
Norm(m, e) ==
  IF m = 0 THEN [m |-> 0, e |-> 0]
  ELSE IF Magn(m) >= Radix THEN Norm(TenthOf(m), e + 1)
  ELSE IF Magn(m) < Lowest THEN Norm(m * 10, e - 1)
  ELSE [m |-> m, e |-> e]

\* The number n * 10^e.
Dec(n, e) == Norm(n, e)

DecNeg(a) == [m |-> 0 - a.m, e |-> a.e]
DecAbs(a) == [m |-> Magn(a.m), e |-> a.e]

\* a * b.
DecMul(a, b) == Norm(a.m * b.m, a.e + b.e)

\* a / b for b # 0.
DecDiv(a, b) ==
  IF (a.m < 0) = (b.m < 0)
  THEN Norm((Magn(a.m) * Radix) \div Magn(b.m), (a.e - b.e) - Digits)
  ELSE Norm(0 - ((Magn(a.m) * Radix) \div Magn(b.m)), (a.e - b.e) - Digits)

\* a + b: the smaller term is lost when it is below the last digit kept.
DecAlign(big, small) ==
  IF big.e - small.e > Digits THEN big
  ELSE Norm((big.m * (10 ^ (big.e - small.e))) + small.m, small.e)

DecAdd(a, b) ==
  IF a.m = 0 THEN b
  ELSE IF b.m = 0 THEN a
  ELSE IF a.e >= b.e THEN DecAlign(a, b)
  ELSE DecAlign(b, a)

DecSub(a, b) == DecAdd(a, DecNeg(b))

\* a < b.
DecLess(a, b) ==
  IF a.m = 0 THEN b.m > 0
  ELSE IF b.m = 0 THEN a.m < 0
  ELSE IF (a.m < 0) # (b.m < 0) THEN a.m < 0
  ELSE IF a.e # b.e THEN (a.e < b.e) = (a.m > 0)
  ELSE a.m < b.m

(* ---------------------------------------------------------------------- *)
(* C27: the residuals and r_squared curveFit returns belong to the        *)
(* returned params: residuals[i] = y[i] - model(x, params)[i] for every   *)
(* i, and the sum of squares r_squared is taken from is that of the       *)
(* returned params, including when the projection into bounds changed     *)
(* the parameters Levenberg-Marquardt ended at.                           *)
(* ---------------------------------------------------------------------- *)
C27_ResidualsOfReturnedParams ==
  (calc.fn = "curveFit" /\ calc.pc = "returned") =>
    /\ calc.result.residuals = Residuals(calc.result.params, calc.target)
    /\ calc.result.ssRes = SumSquares(calc.result.params, calc.target)

\* The fit ended above an upper bound of 2 at the optimum 3 with residual 0;
\* curveFit returned the parameter 2 together with the residual 0.
C27_ProjectedAway ==
  /\ calc.fn = "curveFit"
  /\ calc.pc = "returned"
  /\ \E i \in 1..Len(calc.params) :
       /\ calc.params[i] = Num(Optimum)
       /\ calc.result.params[i] = Num(2)
       /\ calc.result.residuals[i] = Num(0)
       /\ Residuals(calc.result.params, calc.target)[i] = Num(1)

(* ---------------- levenbergMarquardt: solve and the loop -------------- *)

DecZero == Dec(0, 0)
DecOne == Dec(1, 0)

\* The pivot below which solve replaces it (1e-12), and the 1e-10 of the damping.
PivotFloor == Dec(1, -12)
DampingFloor == Dec(1, -10)

\* let sum = 0; for (k ...) sum += terms[k].
RECURSIVE DecSumTo(_, _)
DecSumTo(terms, n) ==
  IF n = 0 THEN DecZero ELSE DecAdd(DecSumTo(terms, n - 1), terms[n])

\* Math.max(...delta.map(Math.abs)) for a delta of one or more components.
RECURSIVE DecMaxAbsTo(_, _)
DecMaxAbsTo(delta, n) ==
  IF n = 1 THEN DecAbs(delta[1])
  ELSE IF DecLess(DecMaxAbsTo(delta, n - 1), DecAbs(delta[n])) THEN DecAbs(delta[n])
  ELSE DecMaxAbsTo(delta, n - 1)

\* Lines 751-753.
SumSquaresOf(residuals) ==
  DecSumTo(Array([k \in 1..Len(residuals) |-> DecMul(residuals[k], residuals[k])]),
           Len(residuals))

\* The residual functions: "linear" returns [p1], "rising" returns
\* [p1 * p1 + 1]; a second parameter, when there is one, is read by neither.
FuncKinds == {"linear", "rising"}

Func(func, params) ==
  IF func = "linear" THEN <<params[1]>>
  ELSE <<DecAdd(DecMul(params[1], params[1]), DecOne)>>

\* Lines 592-612: the forward differences (func(p + 1e-7 e_j) - func(p)) / 1e-7
\* agree with the derivative to the digits kept here, and are exactly 0 for a
\* parameter func does not read.
Slope(func, p1) == IF func = "linear" THEN DecOne ELSE DecMul(Dec(2, 0), p1)

ComputeJacobian(func, params) ==
  Array([k \in 1..Len(Func(func, params)) |->
           Array([j \in 1..Len(params) |->
                    IF j = 1 THEN Slope(func, params[1]) ELSE DecZero])])

\* Lines 783-792.
JTJProper(jacobian, p) ==
  Array([i \in 1..p |->
           Array([j \in 1..p |->
                    DecSumTo(Array([k \in 1..Len(jacobian) |->
                                      DecMul(jacobian[k][i], jacobian[k][j])]),
                             Len(jacobian))])])

\* Lines 794-799 and 807.
NegJTr(jacobian, residuals, p) ==
  Array([i \in 1..p |->
           DecNeg(DecSumTo(Array([k \in 1..Len(residuals) |->
                                    DecMul(jacobian[k][i], residuals[k])]),
                           Len(residuals)))])

\* Lines 802-804.
Damped(JTJ, lambda) ==
  Array([i \in 1..Len(JTJ) |->
           Array([j \in 1..Len(JTJ) |->
                    IF i = j
                    THEN DecAdd(JTJ[i][j], DecMul(lambda, DecAdd(JTJ[i][j], DampingFloor)))
                    ELSE JTJ[i][j]])])

\* Line 684.
Augmented(A, b) ==
  Array([i \in 1..Len(A) |->
           Array([j \in 1..(Len(A) + 1) |-> IF j <= Len(A) THEN A[i][j] ELSE b[i]])])

\* Lines 689-696: the first row, from maxRow on, with the largest magnitude in col.
RECURSIVE PivotRow(_, _, _, _)
PivotRow(aug, col, row, maxRow) ==
  IF row > Len(aug) THEN maxRow
  ELSE IF DecLess(DecAbs(aug[maxRow][col]), DecAbs(aug[row][col]))
  THEN PivotRow(aug, col, row + 1, row)
  ELSE PivotRow(aug, col, row + 1, maxRow)

\* Line 699.
Swapped(aug, col, maxRow) == [aug EXCEPT ![col] = aug[maxRow], ![maxRow] = aug[col]]

\* Line 702.
SmallPivot(aug, col) == DecLess(DecAbs(aug[col][col]), PivotFloor)

\* Lines 702-705.
Regularized(aug, col) ==
  IF SmallPivot(aug, col) THEN [aug EXCEPT ![col][col] = PivotFloor] ELSE aug

\* Lines 708-713.
Eliminated(aug, col) ==
  Array([row \in 1..Len(aug) |->
           IF row > col
           THEN Array([j \in 1..(Len(aug) + 1) |->
                         IF j >= col
                         THEN DecSub(aug[row][j],
                                     DecMul(DecDiv(aug[row][col], aug[col][col]),
                                            aug[col][j]))
                         ELSE aug[row][j]])
           ELSE aug[row]])

\* Lines 687-714 from column col on.
RECURSIVE Elimination(_, _)
Elimination(aug, col) ==
  IF col > Len(aug) THEN aug
  ELSE Elimination(
         Eliminated(Regularized(Swapped(aug, col, PivotRow(aug, col, col + 1, col)), col),
                    col),
         col + 1)

\* Whether the check of line 702 finds a pivot below 1e-12 in some column.
RECURSIVE SingularFrom(_, _)
SingularFrom(aug, col) ==
  IF col > Len(aug) THEN FALSE
  ELSE \/ SmallPivot(Swapped(aug, col, PivotRow(aug, col, col + 1, col)), col)
       \/ SingularFrom(
            Eliminated(Regularized(Swapped(aug, col, PivotRow(aug, col, col + 1, col)), col),
                       col),
            col + 1)

Singular(A, b) == SingularFrom(Augmented(A, b), 1)

\* Lines 719-722: x[i] before the division, x holding the components after i.
RECURSIVE BackTerm(_, _, _, _)
BackTerm(aug, x, i, j) ==
  IF j = i THEN aug[i][Len(aug) + 1]
  ELSE DecSub(BackTerm(aug, x, i, j - 1), DecMul(aug[i][j], x[j]))

\* Lines 717-724 from row i down to the first.
RECURSIVE BackSubstitution(_, _, _)
BackSubstitution(aug, x, i) ==
  IF i = 0 THEN x
  ELSE BackSubstitution(
         aug,
         [x EXCEPT ![i] = DecDiv(BackTerm(aug, x, i, Len(aug)), aug[i][i])],
         i - 1)

\* Lines 680-727.
Solve(A, b) ==
  BackSubstitution(Elimination(Augmented(A, b), 1),
                   Array([i \in 1..Len(A) |-> DecZero]), Len(A))

\* solve has no throw statement.
SolveThrows_WhenSingular(A, b) == Singular(A, b)

SolveThrows(A, b) == FALSE

\* The most passes of the loop a call is given (maxIterations).
MaxLMIterations == 3

\* Line 819.
ParamsPlus(params, delta) ==
  Array([i \in 1..Len(params) |-> DecAdd(params[i], delta[i])])

\* Line 823 with a step of equal cost accepted as well.
Accepts_OrEqual(newCost, cost) == ~DecLess(cost, newCost)

\* Line 823.
Accepts(newCost, cost) == DecLess(newCost, cost)

\* Line 833, cost being the cost already replaced by the new one (line 828).
Converges(improvement, cost, delta, tolerance) ==
  \/ DecLess(improvement, DecMul(tolerance, cost))
  \/ DecLess(DecMaxAbsTo(delta, Len(delta)), tolerance)

\* What a pass of the loop leaves behind for the properties: the step solve
\* returned, whether line 702 replaced a pivot, and the branch taken.
PassRecord(delta, singular, accepted) ==
  [delta |-> delta, singular |-> singular, accepted |-> accepted]

\* Lines 811-816: the catch.
SolveFailed(call, singular) ==
  [call EXCEPT !.lambda = DecMul(@, call.lambdaUp),
               !.iteration = @ + 1,
               !.passes = Append(@, PassRecord(<<>>, singular, FALSE))]

\* Lines 823-841.
StepTaken(call, delta, singular, newParams, newResiduals, newCost) ==
  IF Accepts(newCost, call.cost)
  THEN [call EXCEPT !.params = newParams,
                    !.residuals = newResiduals,
                    !.cost = newCost,
                    !.lambda = DecMul(@, call.lambdaDown),
                    !.jacobian = ComputeJacobian(call.func, newParams),
                    !.converged = Converges(DecSub(call.cost, newCost), newCost, delta,
                                            call.tolerance),
                    !.iteration = @ + 1,
                    !.passes = Append(@, PassRecord(delta, singular, TRUE))]
  ELSE [call EXCEPT !.lambda = DecMul(@, call.lambdaUp),
                    !.iteration = @ + 1,
                    !.passes = Append(@, PassRecord(delta, singular, FALSE))]

\* Lines 818-821.
StepTried(call, delta, singular, newParams) ==
  StepTaken(call, delta, singular, newParams, Func(call.func, newParams),
            SumSquaresOf(Func(call.func, newParams)))

\* Lines 806-821.
Stepped(call, damped, negJTr) ==
  IF SolveThrows(damped, negJTr) THEN SolveFailed(call, Singular(damped, negJTr))
  ELSE StepTried(call, Solve(damped, negJTr), Singular(damped, negJTr),
                 ParamsPlus(call.params, Solve(damped, negJTr)))

\* Lines 782-841: one pass of the loop.
Iterated(call) ==
  Stepped(call,
          Damped(JTJProper(call.jacobian, Len(call.params)), call.lambda),
          NegJTr(call.jacobian, call.residuals, Len(call.params)))

\* The calls: the residual function, one or two parameters, and the options.
LMStarts == {Dec(0, 0), Dec(5, -1), Dec(1, 0), Dec(4, 0), Dec(40, 0)}
LMTolerances == {Dec(1, -8), Dec(5, -1)}
LMLambdas == {Dec(1, -3), Dec(1, -1), Dec(3, 0), Dec(10, 0)}

LMInputs ==
  {[fn |-> "levenbergMarquardt", pc |-> "start", func |-> f,
    initialParams |-> init, maxIterations |-> n, tolerance |-> tol,
    initialLambda |-> l, lambdaUp |-> Dec(10, 0), lambdaDown |-> Dec(1, -1),
    params |-> <<>>, residuals |-> <<>>, cost |-> DecZero, lambda |-> DecZero,
    jacobian |-> <<>>, iteration |-> 0, converged |-> FALSE, passes |-> <<>>,
    result |-> [x |-> <<>>, residuals |-> <<>>, iterations |-> 0, converged |-> FALSE]] :
     f \in FuncKinds,
     init \in {<<s>> : s \in LMStarts} \cup {<<s, Dec(5, 0)>> : s \in LMStarts},
     n \in 0..MaxLMIterations, tol \in LMTolerances, l \in LMLambdas}

\* Lines 771-779.
LMStarted(call) ==
  [call EXCEPT !.pc = "loop",
               !.params = call.initialParams,
               !.residuals = Func(call.func, call.initialParams),
               !.cost = SumSquaresOf(Func(call.func, call.initialParams)),
               !.lambda = call.initialLambda,
               !.jacobian = ComputeJacobian(call.func, call.initialParams)]

LMStart ==
  /\ calc.fn = "levenbergMarquardt"
  /\ calc.pc = "start"
  /\ calc' = LMStarted(calc)
  /\ UNCHANGED vars

\* Line 781 and one pass.
LMIterate ==
  /\ calc.fn = "levenbergMarquardt"
  /\ calc.pc = "loop"
  /\ calc.iteration < calc.maxIterations
  /\ ~calc.converged
  /\ calc' = Iterated(calc)
  /\ UNCHANGED vars

\* Lines 844-890: the covariance (it has its own fallback and throws nothing
\* to the caller) and the result.
LMReturn ==
  /\ calc.fn = "levenbergMarquardt"
  /\ calc.pc = "loop"
  /\ ~(calc.iteration < calc.maxIterations /\ ~calc.converged)
  /\ calc' = [calc EXCEPT !.pc = "returned",
                          !.result = [x |-> calc.params, residuals |-> calc.residuals,
                                      iterations |-> calc.iteration,
                                      converged |-> calc.converged]]
  /\ UNCHANGED vars

LMInit == HookInit /\ calc \in LMInputs

LMNext ==
  \/ LMStart
  \/ LMIterate
  \/ LMReturn

LMSpec == LMInit /\ [][LMNext]_allVars

\* A pass of the loop has just run, and the step it tried.
PassRan == calc.fn = "levenbergMarquardt" /\ calc.pc = "loop" /\ calc'.iteration = calc.iteration + 1

LastPass(call) == call.passes[Len(call.passes)]

(* ---------------------------------------------------------------------- *)
(* C22: in each Levenberg-Marquardt iteration the step is accepted        *)
(* exactly when the new cost is strictly smaller than the current cost;   *)
(* on acceptance params and residuals are replaced, lambda is multiplied  *)
(* by lambda_down and the Jacobian is recomputed; on rejection lambda is  *)
(* multiplied by lambda_up and params, residuals, cost and Jacobian are   *)
(* left unchanged.                                                        *)
(* ---------------------------------------------------------------------- *)
TriedParams == ParamsPlus(calc.params, LastPass(calc').delta)

TriedCost == SumSquaresOf(Func(calc.func, TriedParams))

AcceptRule ==
  /\ LastPass(calc').accepted <=> DecLess(TriedCost, calc.cost)
  /\ LastPass(calc').accepted =>
       /\ calc'.params = TriedParams
       /\ calc'.residuals = Func(calc.func, TriedParams)
       /\ calc'.cost = TriedCost
       /\ calc'.lambda = DecMul(calc.lambda, calc.lambdaDown)
       /\ calc'.jacobian = ComputeJacobian(calc.func, TriedParams)
  /\ ~LastPass(calc').accepted =>
       /\ calc'.lambda = DecMul(calc.lambda, calc.lambdaUp)
       /\ calc'.params = calc.params
       /\ calc'.residuals = calc.residuals
       /\ calc'.cost = calc.cost
       /\ calc'.jacobian = calc.jacobian

C22_AcceptOrReject == [][PassRan => AcceptRule]_allVars

\* A call rejected a step (the rising function overshoots from 0.5), raised
\* lambda, and later accepted one that moved the parameter and lowered the cost.
C22_Witness ==
  /\ calc.fn = "levenbergMarquardt"
  /\ calc.pc = "returned"
  /\ calc.func = "rising"
  /\ \E i, j \in 1..Len(calc.passes) :
       /\ i < j
       /\ ~calc.passes[i].accepted
       /\ calc.passes[j].accepted
  /\ calc.result.x # calc.initialParams
  /\ DecLess(SumSquaresOf(calc.result.residuals),
             SumSquaresOf(Func(calc.func, calc.initialParams)))

(* ---------------------------------------------------------------------- *)
(* C23: Levenberg-Marquardt declares convergence only on an accepted      *)
(* step, and exactly when (cost - cost') < tol * cost, with cost the cost *)
(* before the step and cost' the cost after it, or max|delta| < tol; a    *)
(* rejected step never sets converged.                                    *)
(* ---------------------------------------------------------------------- *)
SmallDelta == DecLess(DecMaxAbsTo(LastPass(calc').delta, Len(calc.params)), calc.tolerance)

C23_ConvergenceTest ==
  [][PassRan =>
       (calc'.converged <=>
          /\ LastPass(calc').accepted
          /\ \/ DecLess(DecSub(calc.cost, calc'.cost), DecMul(calc.tolerance, calc.cost))
             \/ SmallDelta)]_allVars

\* What the loop does: the improvement is compared with tol * cost'.
C23_TestAgainstNewCost ==
  [][PassRan =>
       (calc'.converged <=>
          /\ LastPass(calc').accepted
          /\ \/ DecLess(DecSub(calc.cost, calc'.cost), DecMul(calc.tolerance, calc'.cost))
             \/ SmallDelta)]_allVars

\* The linear function from 4 with lambda 3 and tolerance 0.5: the only pass
\* was accepted with a step of -1 and lowered the cost from 16 to 9, so
\* 7 < 0.5 * 16, and the call returned converged = false.
C23_NotDeclared ==
  /\ calc.fn = "levenbergMarquardt"
  /\ calc.pc = "returned"
  /\ calc.func = "linear"
  /\ calc.initialParams = <<Dec(4, 0)>>
  /\ calc.tolerance = Dec(5, -1)
  /\ calc.passes = <<PassRecord(<<Dec(-1, 0)>>, FALSE, TRUE)>>
  /\ calc.cost = Dec(9, 0)
  /\ ~calc.result.converged

(* ---------------------------------------------------------------------- *)
(* C24: when the damped linear system of a Levenberg-Marquardt iteration  *)
(* is singular (a pivot of magnitude below 1e-12), no error is surfaced   *)
(* to the caller: solve replaces the pivot by 1e-12 and returns a step,   *)
(* the step is tried like any other, and lambda is increased only when    *)
(* the step is rejected (it is decreased when the step lowers the cost).  *)
(* ---------------------------------------------------------------------- *)
DampedNow == Damped(JTJProper(calc.jacobian, Len(calc.params)), calc.lambda)

NegJTrNow == NegJTr(calc.jacobian, calc.residuals, Len(calc.params))

SingularPass == PassRan /\ Singular(DampedNow, NegJTrNow)

C24_SingularStepTried ==
  /\ [][SingularPass =>
          /\ LastPass(calc').singular
          /\ LastPass(calc').delta = Solve(DampedNow, NegJTrNow)
          /\ LastPass(calc').accepted <=>
               DecLess(SumSquaresOf(Func(calc.func,
                                         ParamsPlus(calc.params, Solve(DampedNow, NegJTrNow)))),
                       calc.cost)
          /\ calc'.lambda = IF LastPass(calc').accepted
                            THEN DecMul(calc.lambda, calc.lambdaDown)
                            ELSE DecMul(calc.lambda, calc.lambdaUp)
          /\ calc'.pc = "loop"]_allVars
  /\ [](calc.fn = "levenbergMarquardt" => calc.pc \in {"start", "loop", "returned"})

\* C24 as stated: a singular pass is handled by increasing lambda.
C24_SingularRaisesLambda ==
  [][SingularPass => calc'.lambda = DecMul(calc.lambda, calc.lambdaUp)]_allVars

\* A call with a parameter the function does not read returned after a
\* singular pass whose step was accepted and a singular pass whose step was
\* rejected.
C24_Witness ==
  /\ calc.fn = "levenbergMarquardt"
  /\ calc.pc = "returned"
  /\ Len(calc.params) = 2
  /\ \E i, j \in 1..Len(calc.passes) :
       /\ calc.passes[i].singular
       /\ calc.passes[i].accepted
       /\ calc.passes[i].delta[1] # DecZero
       /\ calc.passes[j].singular
       /\ ~calc.passes[j].accepted

(* -------------------------------- interp ------------------------------ *)

\* The most knots of xOld; the knots lie in 0..KnotSpan and the queries reach
\* one unit beyond. yOld alternates between 0 and 6 from either, or rises.
MaxKnots == 4
KnotSpan == MaxKnots - 1

DataShapes(n) ==
  {[i \in 1..n |-> 6 * (i % 2)], [i \in 1..n |-> 6 * ((i + 1) % 2)], [i \in 1..n |-> 2 * i]}

\* xOld of every length up to MaxKnots, increasing (knots may repeat).
Increasing(xOld) == \A i \in 1..(Len(xOld) - 1) : xOld[i] <= xOld[i + 1]

KnotSets == UNION {{xOld \in [1..n -> 0..KnotSpan] : Increasing(xOld)} : n \in 1..MaxKnots}

\* Lines 972-973: leftVal ?? yOld[0] and rightVal ?? yOld[yOld.length - 1].
LeftFill(call) == IF call.leftVal = Undefined THEN call.yOld[1] ELSE call.leftVal

RightFill(call) ==
  IF call.rightVal = Undefined THEN call.yOld[Len(call.yOld)] ELSE call.rightVal

\* Lines 992-993 on the grid of the data.
InterpLinear(xOld, yOld, x, lo, hi) ==
  yOld[lo] + (((x - xOld[lo]) * (yOld[hi] - yOld[lo])) \div (xOld[hi] - xOld[lo]))

InterpInputs ==
  UNION {{[fn |-> "interp", pc |-> "call", x |-> x, xOld |-> xOld, yOld |-> yOld,
           leftVal |-> l, rightVal |-> r, lo |-> 0, hi |-> 0, halvings |-> 0,
           result |-> Undefined] :
            x \in (0 - 1)..(KnotSpan + 1), yOld \in DataShapes(Len(xOld)),
            l \in {Undefined, 0}, r \in {Undefined, 0}} : xOld \in KnotSets}

\* Lines 976-977 with x at the last knot sent to the search.
InterpEntered_PastLast(call) ==
  IF call.x <= call.xOld[1]
  THEN [call EXCEPT !.pc = "returned", !.result = LeftFill(call)]
  ELSE IF call.x > call.xOld[Len(call.xOld)]
  THEN [call EXCEPT !.pc = "returned", !.result = RightFill(call)]
  ELSE [call EXCEPT !.pc = "search", !.lo = 1, !.hi = Len(call.xOld)]

\* Lines 976-981: the fills, or the search from the two ends (indices from 1).
InterpEntered(call) ==
  IF call.x <= call.xOld[1]
  THEN [call EXCEPT !.pc = "returned", !.result = LeftFill(call)]
  ELSE IF call.x >= call.xOld[Len(call.xOld)]
  THEN [call EXCEPT !.pc = "returned", !.result = RightFill(call)]
  ELSE [call EXCEPT !.pc = "search", !.lo = 1, !.hi = Len(call.xOld)]

\* Lines 983-988: floor((lo + hi) / 2) is the same index counted from 1.
InterpHalved(call) ==
  IF call.xOld[(call.lo + call.hi) \div 2] <= call.x
  THEN [call EXCEPT !.lo = (call.lo + call.hi) \div 2, !.halvings = @ + 1]
  ELSE [call EXCEPT !.hi = (call.lo + call.hi) \div 2, !.halvings = @ + 1]

InterpEnter ==
  /\ calc.fn = "interp"
  /\ calc.pc = "call"
  /\ calc' = InterpEntered(calc)
  /\ UNCHANGED vars

InterpHalve ==
  /\ calc.fn = "interp"
  /\ calc.pc = "search"
  /\ calc.hi - calc.lo > 1
  /\ calc' = InterpHalved(calc)
  /\ UNCHANGED vars

InterpReturn ==
  /\ calc.fn = "interp"
  /\ calc.pc = "search"
  /\ ~(calc.hi - calc.lo > 1)
  /\ calc' = [calc EXCEPT !.pc = "returned",
                          !.result = InterpLinear(calc.xOld, calc.yOld, calc.x,
                                                  calc.lo, calc.hi)]
  /\ UNCHANGED vars

InterpInit == HookInit /\ calc \in InterpInputs

InterpNext ==
  \/ InterpEnter
  \/ InterpHalve
  \/ InterpReturn

InterpSpec == InterpInit /\ [][InterpNext]_allVars

(* ---------------------------------------------------------------------- *)
(* C25: interp returns the left fill for every query x <= x_old[0], the   *)
(* right fill for every x >= x_old[last] (the fills default to y_old[0]   *)
(* and y_old[last], so an explicit right fill of 0 also replaces the      *)
(* value at x = x_old[last]), and for x strictly inside the range the     *)
(* linear interpolation between the two neighbouring knots found by a     *)
(* binary search that keeps x_old[lo] <= x < x_old[hi] and terminates     *)
(* with hi = lo + 1.                                                      *)
(* ---------------------------------------------------------------------- *)
\* The knot interval of a query strictly inside the range.
Neighbour(call) ==
  CHOOSE lo \in 1..(Len(call.xOld) - 1) :
    call.xOld[lo] <= call.x /\ call.x < call.xOld[lo + 1]

ExpectedInterp(call) ==
  IF call.x <= call.xOld[1]
  THEN IF call.leftVal = Undefined THEN call.yOld[1] ELSE call.leftVal
  ELSE IF call.x >= call.xOld[Len(call.xOld)]
  THEN IF call.rightVal = Undefined THEN call.yOld[Len(call.yOld)] ELSE call.rightVal
  ELSE call.yOld[Neighbour(call)]
         + (((call.x - call.xOld[Neighbour(call)])
               * (call.yOld[Neighbour(call) + 1] - call.yOld[Neighbour(call)]))
              \div (call.xOld[Neighbour(call) + 1] - call.xOld[Neighbour(call)]))

C25_FillsAndSearch ==
  calc.fn = "interp" =>
    /\ calc.pc = "search" =>
         /\ calc.xOld[1] < calc.x
         /\ calc.x < calc.xOld[Len(calc.xOld)]
         /\ calc.lo < calc.hi
         /\ calc.xOld[calc.lo] <= calc.x
         /\ calc.x < calc.xOld[calc.hi]
    /\ calc.pc = "returned" =>
         /\ calc.result = ExpectedInterp(calc)
         /\ calc.lo # 0 => calc.hi = calc.lo + 1
         /\ calc.result = InterpAt(calc.x, calc.xOld, calc.yOld, LeftFill(calc), RightFill(calc))

\* A query inside four knots was found after two halvings and interpolated
\* between different data values, in a call with an explicit right fill of 0.
C25_Witness ==
  /\ calc.fn = "interp"
  /\ calc.pc = "returned"
  /\ calc.rightVal = 0
  /\ calc.halvings = 2
  /\ calc.lo = 2
  /\ calc.yOld[2] # calc.yOld[3]
  /\ calc.xOld[2] < calc.x
  /\ calc.result \notin {calc.yOld[2], calc.yOld[3]}

\* The asymmetric fill: a query at the last knot returned the explicit 0,
\* not the 6 held there.
AsymmetricFill ==
  /\ calc.fn = "interp"
  /\ calc.pc = "returned"
  /\ calc.x = calc.xOld[Len(calc.xOld)]
  /\ calc.xOld[1] < calc.x
  /\ calc.rightVal = 0
  /\ calc.yOld[Len(calc.yOld)] = 6
  /\ calc.result = 0

(* ----------------------------- FittingPanel --------------------------- *)

\* The panel over the hook: useState status, fermiResult, irfResult, the
\* last argument of onFitResult, the handlers suspended at their await (in
\* the order their promises were made), the result each request's promise
\* resolved with, and the user's last click.
NoHandler == [mode |-> "none", id |-> NoId, rejected |-> ""]

PanelInit ==
  /\ HookInit
  /\ calc = [fn |-> "FittingPanel", status |-> "idle", fermiResult |-> "null",
             irfResult |-> "null", fitResult |-> "none", awaiting |-> <<>>,
             resolvedWith |-> [id \in Ids |-> "none"], lastClick |-> "none",
             resumed |-> NoHandler]

\* A handler suspended at await whose promise is settled: its continuation
\* is a microtask, which runs before the next event.
Settled(handler) ==
  \/ handler.id = NoId
  \/ promise[handler.id].state \in {"resolved", "rejected"}

JobQueued == \E i \in 1..Len(calc.awaiting) : Settled(calc.awaiting[i])

\* The promise a call of the hook returned: that of the request it started,
\* or one rejected at once.
Awaited(mode, id) ==
  IF lastCall' = CallRecord(mode, "started")
  THEN [mode |-> mode, id |-> id, rejected |-> ""]
  ELSE [mode |-> mode, id |-> NoId, rejected |-> lastCall']

\* handleFitFermiEdge up to its await (lines 53-58); the button is disabled
\* while isRunning.
PanelFitFermiEdge ==
  /\ calc.fn = "FittingPanel"
  /\ ~JobQueued
  /\ ~closureIsRunning
  /\ \E ok \in BOOLEAN :
       StartRequestBody("fitFermiEdge", FitFermiEdgeMessage(messageIdCounter, TRUE, ok))
  /\ calc' = [calc EXCEPT !.status = "running",
                          !.fermiResult = "null",
                          !.awaiting = Append(@, Awaited("fitFermiEdge", messageIdCounter)),
                          !.lastClick = "fit"]

\* handleEstimateIRF up to its await (lines 72-77).
PanelEstimateIRF ==
  /\ calc.fn = "FittingPanel"
  /\ ~JobQueued
  /\ ~closureIsRunning
  /\ \E ok \in BOOLEAN :
       StartRequestBody("estimateIRF",
                        EstimateIRFMessage(messageIdCounter, DefaultMaxIterations, ok))
  /\ calc' = [calc EXCEPT !.status = "running",
                          !.irfResult = "null",
                          !.awaiting = Append(@, Awaited("estimateIRF", messageIdCounter)),
                          !.lastClick = "fit"]

\* Lines 101-104: the state of the panel after handleCancel.
Cancelled(panel) == [panel EXCEPT !.status = "idle", !.lastClick = "cancel"]

\* handleCancel; the button is rendered while isRunning.
PanelCancel ==
  /\ calc.fn = "FittingPanel"
  /\ ~JobQueued
  /\ closureIsRunning
  /\ CancelBody
  /\ calc' = Cancelled(calc)

\* Lines 59-64 and 78-79: the continuation after a resolved promise.
Fulfilled(panel, handler, success) ==
  IF handler.mode = "fitFermiEdge"
  THEN [panel EXCEPT !.fermiResult = IF success THEN "success" ELSE "failure",
                     !.status = IF success THEN "success" ELSE "error",
                     !.fitResult = IF success THEN "fittedSpectrum" ELSE @]
  ELSE [panel EXCEPT !.irfResult = IF success THEN "success" ELSE "failure",
                     !.status = IF success THEN "success" ELSE "error"]

\* Lines 65-69 and 80-83: the catch.
Caught(panel, handler) ==
  IF handler.mode = "fitFermiEdge"
  THEN [panel EXCEPT !.status = "error", !.fitResult = "null"]
  ELSE [panel EXCEPT !.status = "error"]

\* The continuation of the first suspended handler whose promise is settled.
Resumed(panel, handler) ==
  IF handler.id # NoId /\ promise[handler.id].state = "resolved"
  THEN Fulfilled(panel, handler, panel.resolvedWith[handler.id] = "success")
  ELSE Caught(panel, handler)

Without(awaiting, i) ==
  [j \in 1..(Len(awaiting) - 1) |-> IF j < i THEN awaiting[j] ELSE awaiting[j + 1]]

PanelResume ==
  /\ calc.fn = "FittingPanel"
  /\ \E i \in 1..Len(calc.awaiting) :
       /\ Settled(calc.awaiting[i])
       /\ \A j \in 1..(i - 1) : ~Settled(calc.awaiting[j])
       /\ calc' = [Resumed(calc, calc.awaiting[i]) EXCEPT
                     !.awaiting = Without(calc.awaiting, i),
                     !.resumed = calc.awaiting[i]]
  /\ UNCHANGED vars

\* The messages a worker may post to the hook: progress, a result with
\* success true or false, an error, for each id.
PanelInputs ==
  {ProgressMessage(1, id, 1, ProgressPercent(1, DefaultMaxIterations)) : id \in Ids}
  \cup {ResultMessage(1, id, [success |-> s, iterations |-> 0]) : id \in Ids, s \in BOOLEAN}
  \cup {ErrorMessage(1, id, ThrownText) : id \in Ids}

\* resolve(message.result): the promise carries the result.
Carried(panel, m) ==
  IF m.type = "result" /\ PassesIdFilter(m) /\ currentResolverRef # NoId
  THEN [panel EXCEPT !.resolvedWith[currentResolverRef] =
                       IF m.result.success THEN "success" ELSE "failure"]
  ELSE panel

PanelMessage ==
  /\ calc.fn = "FittingPanel"
  /\ ~JobQueued
  /\ \E m \in PanelInputs :
       /\ OnMessageBody(m)
       /\ calc' = Carried(calc, m)
  /\ UNCHANGED <<inbox, outbox, sent, pc, req, iteration, converged>>

PanelWorkerError ==
  /\ calc.fn = "FittingPanel"
  /\ ~JobQueued
  /\ OnErrorBody("worker error")
  /\ UNCHANGED <<inbox, outbox, sent, pc, req, iteration, converged>>
  /\ UNCHANGED calc

PanelRender ==
  /\ calc.fn = "FittingPanel"
  /\ ~JobQueued
  /\ Render

PanelNext ==
  \/ PanelFitFermiEdge
  \/ PanelEstimateIRF
  \/ PanelCancel
  \/ PanelResume
  \/ PanelMessage
  \/ PanelWorkerError
  \/ PanelRender

PanelSpec == PanelInit /\ [][PanelNext]_allVars

(* ---------------------------------------------------------------------- *)
(* C26: after the user cancels a running fit from the fitting panel       *)
(* (handleCancel), the panel's status settles at 'idle': the rejection of *)
(* the cancelled promise does not afterwards move the status to 'error'.  *)
(* ---------------------------------------------------------------------- *)
C26_SettlesAtIdle ==
  (calc.fn = "FittingPanel" /\ calc.lastClick = "cancel" /\ ~JobQueued) =>
    calc.status = "idle"

\* The user started a fit and cancelled it; cancel() rejected the promise
\* with 'Operation cancelled', handleCancel set 'idle', and the catch of
\* handleFitFermiEdge then set 'error' and called onFitResult(null).
C26_ErrorAfterCancel ==
  /\ calc.fn = "FittingPanel"
  /\ calc.lastClick = "cancel"
  /\ calc.awaiting = <<>>
  /\ calc.resumed.mode = "fitFermiEdge"
  /\ promise[calc.resumed.id] = Rejected("Operation cancelled")
  /\ ~isRunning
  /\ calc.status = "error"
  /\ calc.fitResult = "null"

====
